---- MODULE Spec2Model ----
(***************************************************************************)
(* A model of `is`, the predicate evaluator of src/src/main.rs.            *)
(*                                                                         *)
(* One process invocation is one behaviour: Cli::parse() resolves the      *)
(* argument vector into a typed command (or exits with clap's usage code), *)
(* main's match dispatches on the command family, and the selected branch  *)
(* queries the outside world (filesystem, environment, network, process    *)
(* credentials) and ends the process with exit(0) or exit(1).              *)
(*                                                                         *)
(* Text is modelled as a sequence of characters; a character is a string   *)
(* holding the ASCII character itself, or the name of a non-ASCII letter.  *)
(***************************************************************************)
EXTENDS Integers, Sequences, FiniteSets, TLC

VARIABLES
    pc,         \* position in main: "start", "dispatch", "exited"
    argv,       \* the invocation: [family, verb, args], args raw text
    cmd,        \* cli.command once resolved: [family, verb, args]
    outcome,    \* how the process ended: [how, code]
    effects,    \* the external queries and writes made so far, in order
    fs,         \* the filesystem: absolute path -> directory entry
    environ,    \* the environment: variable name -> [set, val]
    net,        \* the network: what a TCP connect to an address does
    proc,       \* the process: credentials, clock, terminals, passwd home
    last        \* the previous invocation of the same request, if any:
                \* how it ended and what the clock read

vars == <<pc, argv, cmd, outcome, effects, fs, environ, net, proc, last>>

(***************************************************************************)
(* Text helpers.                                                           *)
(***************************************************************************)
Digits == <<"0", "1", "2", "3", "4", "5", "6", "7", "8", "9">>

IsDigit(c) == \E i \in 1..10 : Digits[i] = c

DigitVal(c) == (CHOOSE i \in 1..10 : Digits[i] = c) - 1

AllDigits(s) == \A i \in 1..Len(s) : IsDigit(s[i])

StartsWith(s, p) == Len(p) <= Len(s) /\ SubSeq(s, 1, Len(p)) = p

EndsWith(s, p) ==
    Len(p) <= Len(s) /\ SubSeq(s, Len(s) - Len(p) + 1, Len(s)) = p

Contains(s, n) ==
    \E i \in 1..(Len(s) - Len(n) + 1) : SubSeq(s, i, i + Len(n) - 1) = n

Tail0(s) == IF s = <<>> THEN <<>> ELSE Tail(s)

\* the position of the first occurrence of character c in s, or 0
IndexOf(s, c) ==
    IF \E i \in 1..Len(s) : s[i] = c
    THEN CHOOSE i \in 1..Len(s) : s[i] = c /\ \A j \in 1..(i - 1) : s[j] # c
    ELSE 0

\* s cut at every occurrence of the character sep (str::split)
RECURSIVE Split(_, _)
Split(s, sep) ==
    LET i == IndexOf(s, sep)
    IN  IF i = 0 THEN <<s>>
        ELSE <<SubSeq(s, 1, i - 1)>> \o Split(SubSeq(s, i + 1, Len(s)), sep)

\* the decimal text of a natural number (Display for integers)
RECURSIVE DecStr(_)
DecStr(n) ==
    IF n < 10 THEN <<Digits[n + 1]>>
    ELSE DecStr(n \div 10) \o <<Digits[(n % 10) + 1]>>

RECURSIVE StripZeros(_)
StripZeros(s) ==
    IF Len(s) > 1 /\ s[1] = "0" THEN StripZeros(Tail(s)) ELSE s

\* three-way comparison of two digit strings of the same length
RECURSIVE LexCmp(_, _)
LexCmp(a, b) ==
    IF a = <<>> THEN 0
    ELSE IF DigitVal(a[1]) < DigitVal(b[1]) THEN -1
    ELSE IF DigitVal(a[1]) > DigitVal(b[1]) THEN 1
    ELSE LexCmp(Tail(a), Tail(b))

\* three-way comparison of two magnitudes written without leading zeros
MagCmp(a, b) ==
    IF Len(a) < Len(b) THEN -1
    ELSE IF Len(a) > Len(b) THEN 1
    ELSE LexCmp(a, b)

(***************************************************************************)
(* Integer conversion (str::parse for i64, i32, u64, usize, u16).  A value *)
(* is kept as sign and magnitude, the magnitude as decimal text, so that   *)
(* the 64-bit range check is the one the code makes.                       *)
(***************************************************************************)
I64Max == <<"9","2","2","3","3","7","2","0","3","6","8","5","4","7","7","5","8","0","7">>
I64MinMag == <<"9","2","2","3","3","7","2","0","3","6","8","5","4","7","7","5","8","0","8">>
U64Max == <<"1","8","4","4","6","7","4","4","0","7","3","7","0","9","5","5","1","6","1","5">>
U16Max == <<"6","5","5","3","5">>
I32Max == <<"2","1","4","7","4","8","3","6","4","7">>
I32MinMag == <<"2","1","4","7","4","8","3","6","4","8">>

NoInt == [ok |-> FALSE, neg |-> FALSE, mag |-> <<"0">>]

ParseInteger(s, signed, maxPos, maxNegMag) ==
    LET hasSign == s # <<>> /\ s[1] \in {"+", "-"}
        neg     == s # <<>> /\ s[1] = "-"
        body    == IF hasSign THEN Tail(s) ELSE s
        mag     == StripZeros(body)
    IN  IF body = <<>> \/ ~AllDigits(body) THEN NoInt
        ELSE IF neg /\ ~signed THEN NoInt
        ELSE IF neg /\ MagCmp(mag, maxNegMag) > 0 THEN NoInt
        ELSE IF ~neg /\ MagCmp(mag, maxPos) > 0 THEN NoInt
        ELSE [ok |-> TRUE, neg |-> neg /\ mag # <<"0">>, mag |-> mag]

ParseI64(s) == ParseInteger(s, TRUE, I64Max, I64MinMag)
ParseI32(s) == ParseInteger(s, TRUE, I32Max, I32MinMag)
ParseU64(s) == ParseInteger(s, FALSE, U64Max, <<"0">>)
ParseU16(s) == ParseInteger(s, FALSE, U16Max, <<"0">>)

\* three-way comparison of two integer values
IntCmp(a, b) ==
    IF a.neg /\ ~b.neg THEN -1
    ELSE IF ~a.neg /\ b.neg THEN 1
    ELSE IF a.neg THEN MagCmp(b.mag, a.mag)
    ELSE MagCmp(a.mag, b.mag)

\* the integer value of a natural number of the model
IntOfNat(n) == [ok |-> TRUE, neg |-> FALSE, mag |-> DecStr(n)]

(***************************************************************************)
(* Floating point (f64).  A value is NaN, an infinity or a finite number;  *)
(* a finite number is a signed count of halves, every one of which a       *)
(* binary float holds exactly, so that the difference of two finite values *)
(* is exact unless it leaves the finite range, as in IEEE 754.  FMaxMag    *)
(* stands for f64::MAX: a finite result beyond it is an infinity.          *)
(***************************************************************************)
FMaxMag == 6

NaN == [cls |-> "nan", neg |-> FALSE, mag |-> 0]
Inf(neg) == [cls |-> "inf", neg |-> neg, mag |-> 0]
Fin(neg, mag) == [cls |-> "fin", neg |-> neg, mag |-> mag]
NoFloat == [ok |-> FALSE, v |-> NaN]
SomeFloat(v) == [ok |-> TRUE, v |-> v]

\* a signed count of halves as a float, rounded into range
FloatOfHalves(h) ==
    LET m == IF h < 0 THEN -h ELSE h
    IN  IF m > FMaxMag THEN Inf(h < 0) ELSE Fin(h < 0, m)

\* the signed count of halves of a finite float
Halves(x) == IF x.neg THEN -x.mag ELSE x.mag

\* the value of short decimal text
RECURSIVE NatOf(_)
NatOf(s) ==
    IF s = <<>> THEN 0
    ELSE 10 * NatOf(SubSeq(s, 1, Len(s) - 1)) + DigitVal(s[Len(s)])

\* f64::from_str on the literals the model draws: an optional sign, then
\* "inf", "infinity", "nan", "1e999" (beyond f64::MAX, so an infinity), or
\* digits with an optional fraction of one digit that is 0 or 5.  Anything
\* else the model draws is not a float.
ParseF64(s) ==
    LET hasSign == s # <<>> /\ s[1] \in {"+", "-"}
        neg     == s # <<>> /\ s[1] = "-"
        body    == IF hasSign THEN Tail(s) ELSE s
        dot     == IndexOf(body, ".")
        ip      == IF dot = 0 THEN body ELSE SubSeq(body, 1, dot - 1)
        fp      == IF dot = 0 THEN <<>> ELSE SubSeq(body, dot + 1, Len(body))
        mag     == 2 * NatOf(StripZeros(ip))
                     + (IF fp = <<"5">> THEN 1 ELSE 0)
    IN  IF body \in {<<"i","n","f">>, <<"i","n","f","i","n","i","t","y">>,
                     <<"I","N","F">>}
        THEN SomeFloat(Inf(neg))
        ELSE IF body \in {<<"n","a","n">>, <<"N","a","N">>}
        THEN SomeFloat(NaN)
        ELSE IF body = <<"1","e","9","9","9">>
        THEN SomeFloat(Inf(neg))
        ELSE IF ip = <<>> \/ ~AllDigits(ip)
        THEN NoFloat
        ELSE IF dot # 0 /\ fp \notin {<<"0">>, <<"5">>}
        THEN NoFloat
        ELSE IF Len(StripZeros(ip)) > 3
        THEN SomeFloat(Inf(neg))
        ELSE SomeFloat(IF mag > FMaxMag THEN Inf(neg) ELSE Fin(neg, mag))

\* a - b
FSub(a, b) ==
    IF a.cls = "nan" \/ b.cls = "nan" THEN NaN
    ELSE IF a.cls = "inf" /\ b.cls = "inf"
    THEN (IF a.neg = b.neg THEN NaN ELSE Inf(a.neg))
    ELSE IF a.cls = "inf" THEN Inf(a.neg)
    ELSE IF b.cls = "inf" THEN Inf(~b.neg)
    ELSE FloatOfHalves(Halves(a) - Halves(b))

\* f64::abs
FAbs(a) == [a EXCEPT !.neg = FALSE]

\* the IEEE comparisons: every comparison with a NaN but != is false
FEq(a, b) ==
    /\ a.cls # "nan" /\ b.cls # "nan"
    /\ \/ a.cls = "inf" /\ b.cls = "inf" /\ a.neg = b.neg
       \/ a.cls = "fin" /\ b.cls = "fin" /\ Halves(a) = Halves(b)

FLt(a, b) ==
    /\ a.cls # "nan" /\ b.cls # "nan"
    /\ ~FEq(a, b)
    /\ \/ a.cls = "inf" /\ a.neg
       \/ b.cls = "inf" /\ ~b.neg
       \/ a.cls = "fin" /\ b.cls = "fin" /\ Halves(a) < Halves(b)

FLe(a, b) == FLt(a, b) \/ FEq(a, b)
FGt(a, b) == FLt(b, a)
FGe(a, b) == FLe(b, a)
FZero == Fin(FALSE, 0)

(***************************************************************************)
(* Semantic versions (semver::Version).  parse follows the crate's         *)
(* grammar; the comparisons are the derived ones of the struct: field by   *)
(* field over (major, minor, patch, pre, build), with the crate's Ord for  *)
(* Prerelease and BuildMetadata.                                           *)
(***************************************************************************)
AsciiOrder ==
    <<"-", "0", "1", "2", "3", "4", "5", "6", "7", "8", "9",
      "A", "B", "C", "D", "E", "F", "G", "H", "I", "J", "K", "L", "M",
      "N", "O", "P", "Q", "R", "S", "T", "U", "V", "W", "X", "Y", "Z",
      "a", "b", "c", "d", "e", "f", "g", "h", "i", "j", "k", "l", "m",
      "n", "o", "p", "q", "r", "s", "t", "u", "v", "w", "x", "y", "z">>

IsIdentChar(c) == \E i \in 1..Len(AsciiOrder) : AsciiOrder[i] = c

AsciiRank(c) == CHOOSE i \in 1..Len(AsciiOrder) : AsciiOrder[i] = c

\* Ord for str over identifier characters: byte order, a prefix first
RECURSIVE StrCmp(_, _)
StrCmp(a, b) ==
    IF a = <<>> /\ b = <<>> THEN 0
    ELSE IF a = <<>> THEN -1
    ELSE IF b = <<>> THEN 1
    ELSE IF AsciiRank(a[1]) < AsciiRank(b[1]) THEN -1
    ELSE IF AsciiRank(a[1]) > AsciiRank(b[1]) THEN 1
    ELSE StrCmp(Tail(a), Tail(b))

\* str::trim_start_matches('0')
RECURSIVE TrimZeros(_)
TrimZeros(s) == IF s # <<>> /\ s[1] = "0" THEN TrimZeros(Tail(s)) ELSE s

\* a numeric field: digits, no leading zero, within u64
NumericOk(s) ==
    /\ s # <<>>
    /\ AllDigits(s)
    /\ (Len(s) > 1 => s[1] # "0")
    /\ MagCmp(s, U64Max) <= 0

\* a pre-release: dot-separated, no empty segment, no numeric segment with a
\* leading zero
PreOk(s) ==
    /\ \A i \in 1..Len(s) : IsIdentChar(s[i]) \/ s[i] = "."
    /\ \A seg \in {Split(s, ".")[i] : i \in 1..Len(Split(s, "."))} :
          /\ seg # <<>>
          /\ (AllDigits(seg) /\ Len(seg) > 1 => seg[1] # "0")

\* build metadata: dot-separated, no empty segment
BuildOk(s) ==
    /\ \A i \in 1..Len(s) : IsIdentChar(s[i]) \/ s[i] = "."
    /\ \A seg \in {Split(s, ".")[i] : i \in 1..Len(Split(s, "."))} : seg # <<>>

NoVersion ==
    [ok |-> FALSE, major |-> <<"0">>, minor |-> <<"0">>, patch |-> <<"0">>,
     pre |-> <<>>, build |-> <<>>]

\* Version::parse
VersionParse(text) ==
    LET plus     == IndexOf(text, "+")
        left     == IF plus = 0 THEN text ELSE SubSeq(text, 1, plus - 1)
        build    == IF plus = 0 THEN <<>> ELSE SubSeq(text, plus + 1, Len(text))
        dash     == IndexOf(left, "-")
        core     == IF dash = 0 THEN left ELSE SubSeq(left, 1, dash - 1)
        pre      == IF dash = 0 THEN <<>> ELSE SubSeq(left, dash + 1, Len(left))
        fields   == Split(core, ".")
    IN  IF /\ Len(fields) = 3
           /\ \A i \in 1..3 : NumericOk(fields[i])
           /\ (dash # 0 => PreOk(pre))
           /\ (plus # 0 => BuildOk(build))
        THEN [ok |-> TRUE, major |-> fields[1], minor |-> fields[2],
              patch |-> fields[3], pre |-> pre, build |-> build]
        ELSE NoVersion

\* the common loop of the two identifier orders, over the segments left
RECURSIVE SegmentsCmp(_, _, _)
SegmentsCmp(ls, rs, isBuild) ==
    IF ls = <<>> THEN (IF rs = <<>> THEN 0 ELSE -1)
    ELSE IF rs = <<>> THEN 1
    ELSE LET l == ls[1]
             r == rs[1]
             lv == TrimZeros(l)
             rv == TrimZeros(r)
             ord ==
                IF AllDigits(l) /\ AllDigits(r)
                THEN IF isBuild
                     THEN (IF Len(lv) # Len(rv)
                           THEN (IF Len(lv) < Len(rv) THEN -1 ELSE 1)
                           ELSE IF StrCmp(lv, rv) # 0 THEN StrCmp(lv, rv)
                           ELSE IF Len(l) < Len(r) THEN -1
                           ELSE IF Len(l) > Len(r) THEN 1 ELSE 0)
                     ELSE (IF Len(l) # Len(r)
                           THEN (IF Len(l) < Len(r) THEN -1 ELSE 1)
                           ELSE StrCmp(l, r))
                ELSE IF AllDigits(l) THEN -1
                ELSE IF AllDigits(r) THEN 1
                ELSE StrCmp(l, r)
         IN  IF ord # 0 THEN ord ELSE SegmentsCmp(Tail(ls), Tail(rs), isBuild)

\* Ord for Prerelease: no pre-release ranks above any pre-release
PrereleaseCmp(a, b) ==
    IF a = <<>> /\ b = <<>> THEN 0
    ELSE IF a = <<>> THEN 1
    ELSE IF b = <<>> THEN -1
    ELSE SegmentsCmp(Split(a, "."), Split(b, "."), FALSE)

\* Ord for BuildMetadata
BuildMetadataCmp(a, b) == SegmentsCmp(Split(a, "."), Split(b, "."), TRUE)

\* Ord for Version, as derived: the first field that differs decides
\* version fields ordered as text, character by character
VersionCmp_fields_as_text(a, b) ==
    IF StrCmp(a.major, b.major) # 0 THEN StrCmp(a.major, b.major)
    ELSE IF StrCmp(a.minor, b.minor) # 0 THEN StrCmp(a.minor, b.minor)
    ELSE IF StrCmp(a.patch, b.patch) # 0 THEN StrCmp(a.patch, b.patch)
    ELSE IF PrereleaseCmp(a.pre, b.pre) # 0 THEN PrereleaseCmp(a.pre, b.pre)
    ELSE BuildMetadataCmp(a.build, b.build)

\* Ord for Version, as derived: the fields in declaration order
VersionCmp(a, b) ==
    IF MagCmp(a.major, b.major) # 0 THEN MagCmp(a.major, b.major)
    ELSE IF MagCmp(a.minor, b.minor) # 0 THEN MagCmp(a.minor, b.minor)
    ELSE IF MagCmp(a.patch, b.patch) # 0 THEN MagCmp(a.patch, b.patch)
    ELSE IF PrereleaseCmp(a.pre, b.pre) # 0 THEN PrereleaseCmp(a.pre, b.pre)
    ELSE BuildMetadataCmp(a.build, b.build)

\* PartialEq for Version, as derived: every field equal
VersionEq(a, b) ==
    /\ a.major = b.major /\ a.minor = b.minor /\ a.patch = b.patch
    /\ a.pre = b.pre /\ a.build = b.build

(***************************************************************************)
(* Letter case.  The non-ASCII letters of the model are named:             *)
(*   "i_uml" U+00EF, "I_UML" U+00CF, "sigma" U+03C3, "fsigma" U+03C2,      *)
(*   "SIGMA" U+03A3, "long_s" U+017F, "comb_dot" U+0307 (a combining mark) *)
(***************************************************************************)
NonAscii == {"i_uml", "I_UML", "sigma", "fsigma", "SIGMA", "long_s", "comb_dot"}

IsAscii(c) == c \notin NonAscii

IsAsciiUpper(c) ==
    \E i \in 12..37 : AsciiOrder[i] = c

\* u8::to_ascii_lowercase, on a character
AsciiLower(c) ==
    IF IsAsciiUpper(c) THEN AsciiOrder[AsciiRank(c) + 26] ELSE c

\* the Unicode properties Cased and Case_Ignorable, on the model's letters
Cased(c) ==
    \/ \E i \in 12..63 : AsciiOrder[i] = c
    \/ c \in {"i_uml", "I_UML", "sigma", "fsigma", "SIGMA", "long_s"}

CaseIgnorable(c) == c \in {"comb_dot", "'", ".", ":", "^"}

\* char::to_lowercase, for every character but U+03A3
CharLower(c) ==
    IF c = "I_UML" THEN "i_uml" ELSE AsciiLower(c)

\* core::str's case_ignorable_then_cased, over the characters of s in order
RECURSIVE CaseIgnorableThenCased(_)
CaseIgnorableThenCased(s) ==
    IF s = <<>> THEN FALSE
    ELSE IF CaseIgnorable(s[1]) THEN CaseIgnorableThenCased(Tail(s))
    ELSE Cased(s[1])

Reverse(s) == [i \in 1..Len(s) |-> s[Len(s) + 1 - i]]

\* str::to_lowercase: every character lowered, U+03A3 to the final sigma when
\* it ends a word and to the plain sigma otherwise
ToLowercase(s) ==
    [i \in 1..Len(s) |->
        IF s[i] = "SIGMA"
        THEN IF /\ CaseIgnorableThenCased(Reverse(SubSeq(s, 1, i - 1)))
                /\ ~CaseIgnorableThenCased(SubSeq(s, i + 1, Len(s)))
             THEN "fsigma" ELSE "sigma"
        ELSE CharLower(s[i])]

\* str::eq_ignore_ascii_case: the same bytes once ASCII letters are lowered
EqIgnoreAsciiCase(a, b) ==
    /\ Len(a) = Len(b)
    /\ \A i \in 1..Len(a) : AsciiLower(a[i]) = AsciiLower(b[i])

eq_ci(a, b) == EqIgnoreAsciiCase(a, b) \/ ToLowercase(a) = ToLowercase(b)

\* Unicode simple case folding, which the regex crate matches under (?i)
SimpleFold(c) ==
    IF c \in {"SIGMA", "fsigma"} THEN "sigma"
    ELSE IF c = "long_s" THEN "s"
    ELSE CharLower(c)

(***************************************************************************)
(* The outside world.                                                      *)
(*                                                                         *)
(* fs.names maps a path to its directory entry: missing, denied (the       *)
(* lookup fails with EACCES), a symbolic link to a target path, or a hard  *)
(* link to an inode.  fs.inodes maps an inode number to its attributes.    *)
(***************************************************************************)
NoMeta ==
    [ok |-> FALSE, type |-> "none", size |-> 0, mtime |-> 0, uid |-> 0,
     gid |-> 0, mode |-> 0, dev |-> 0, ino |-> 0]

Lookup(p) ==
    IF p \in DOMAIN fs.names
    THEN fs.names[p]
    ELSE [kind |-> "missing", target |-> <<>>, ino |-> 0]

MetaOf(ino) == [ok |-> TRUE] @@ fs.inodes[ino]

\* lstat(2): the entry itself; a symbolic link is an inode of type symlink
Lstat(p) ==
    LET e == Lookup(p)
    IN  IF e.kind = "link" THEN MetaOf(e.ino)
        ELSE IF e.kind = "symlink" THEN [NoMeta EXCEPT !.ok = TRUE, !.type = "symlink"]
        ELSE NoMeta

\* stat(2): symbolic links followed; a chain longer than the number of names
\* is a loop and fails like any other failed lookup
RECURSIVE Follow(_, _)
Follow(p, left) ==
    LET e == Lookup(p)
    IN  IF e.kind = "link" THEN MetaOf(e.ino)
        ELSE IF e.kind = "symlink" /\ left > 0 THEN Follow(e.target, left - 1)
        ELSE NoMeta

Stat(p) == Follow(p, Cardinality(DOMAIN fs.names))

R_OK == 4
W_OK == 2
X_OK == 1

ModeBit(mode, bit) == (mode \div bit) % 2 = 1

\* the permission check of the kernel for user uid in group gid
OsPermits(uid, gid, m, amode) ==
    IF uid = 0
    THEN amode # X_OK \/ m.type = "directory"
            \/ ModeBit(m.mode, 64) \/ ModeBit(m.mode, 8) \/ ModeBit(m.mode, 1)
    ELSE IF m.uid = uid THEN ModeBit(m.mode, 64 * amode)
    ELSE IF m.gid = gid THEN ModeBit(m.mode, 8 * amode)
    ELSE ModeBit(m.mode, amode)

\* access(2) decides with the credentials `who` names: "effective" is what
\* faccessat(AT_EACCESS) does
AccessAs(who, p, amode) ==
    LET m == Stat(p)
    IN  /\ m.ok
        /\ IF who = "real"
           THEN OsPermits(proc.ruid, proc.rgid, m, amode)
           ELSE OsPermits(proc.euid, proc.egid, m, amode)

\* libc::access: "The check is done using the calling process's real UID and
\* GID" (access(2))
LibcAccess(p, amode) == AccessAs("real", p, amode)

(***************************************************************************)
(* Environment and home directory.                                         *)
(***************************************************************************)
HOME == <<"H", "O", "M", "E">>
PATH == <<"P", "A", "T", "H">>
Unset == [set |-> FALSE, val |-> <<>>]
SetTo(v) == [set |-> TRUE, val |-> v]

\* env::var_os: None for a name the environment does not hold
VarOs(name) == IF name \in DOMAIN environ THEN environ[name] ELSE Unset

\* dirs::home_dir: $HOME when set and not empty, else the passwd entry
HomeDir ==
    IF VarOs(HOME).set /\ VarOs(HOME).val # <<>>
    THEN SetTo(VarOs(HOME).val)
    ELSE proc.pw_home

\* shellexpand::tilde: a leading "~" that ends the text or is followed by "/"
\* becomes the home directory; without a home directory the text is kept
Tilde(text) ==
    IF /\ text # <<>> /\ text[1] = "~"
       /\ (Len(text) = 1 \/ text[2] = "/")
       /\ HomeDir.set
    THEN HomeDir.val \o Tail(text)
    ELSE text

expand_path(path_str) == Tilde(path_str)

(***************************************************************************)
(* Globbing (glob::glob).  A pattern of literal characters, "?" and "*";   *)
(* "[" without its "]" and a run of three "*" are pattern errors.  The     *)
(* matches are the names a directory listing shows: every entry that is    *)
(* there, a dangling symbolic link included.                               *)
(***************************************************************************)
GlobPatternOk(pat) ==
    /\ ~(\E i \in 1..Len(pat) :
            pat[i] = "[" /\ ~(\E j \in (i + 1)..Len(pat) : pat[j] = "]"))
    /\ ~Contains(pat, <<"*", "*", "*">>)

RECURSIVE GlobMatch(_, _)
GlobMatch(pat, name) ==
    IF pat = <<>> THEN name = <<>>
    ELSE IF pat[1] = "*"
    THEN \/ GlobMatch(Tail(pat), name)
         \/ name # <<>> /\ name[1] # "/" /\ GlobMatch(pat, Tail(name))
    ELSE IF pat[1] = "?"
    THEN name # <<>> /\ name[1] # "/" /\ GlobMatch(Tail(pat), Tail(name))
    ELSE name # <<>> /\ name[1] = pat[1] /\ GlobMatch(Tail(pat), Tail(name))

GlobPaths(pat) ==
    {p \in DOMAIN fs.names :
        Lookup(p).kind \in {"link", "symlink"} /\ GlobMatch(pat, p)}

(***************************************************************************)
(* The branches of main.  Every branch ends the process: Exit(b, fx) is    *)
(* exit(0) when b holds and exit(1) otherwise, after the queries fx.       *)
(***************************************************************************)
Fx(op, arg) == [op |-> op, arg |-> arg]

Exit(b, fx) == [how |-> "exit", code |-> IF b THEN 0 ELSE 1, fx |-> fx]

TicksPerSecond == 2

\* SystemTime::elapsed, then Duration::as_secs: whole seconds since mtime,
\* none when mtime lies after the clock
Elapsed(mtime) ==
    IF proc.now >= mtime
    THEN [ok |-> TRUE, secs |-> IntOfNat((proc.now - mtime) \div TicksPerSecond)]
    ELSE [ok |-> FALSE, secs |-> IntOfNat(0)]

\* the closure a branch hands to handle_file_check
FileCheck(c, m) ==
    LET v == c.verb
    IN  CASE v = "directory" -> m.type = "directory"
          [] v = "regular" -> m.type = "regular"
          [] v = "block-device" -> m.type = "block"
          [] v = "character-device" -> m.type = "char"
          [] v = "named-pipe" -> m.type = "fifo"
          [] v = "socket" -> m.type = "socket"
          [] v = "non-empty" -> m.size > 0
          [] v = "has-suid" -> ModeBit(m.mode, 2048)
          [] v = "has-sgid" -> ModeBit(m.mode, 1024)
          [] v = "has-sticky" -> ModeBit(m.mode, 512)
          [] v = "owned-by-effective-user" ->
                LET meta == Stat(expand_path(c.args[1]))
                IN  meta.ok /\ meta.uid = proc.euid
          [] v = "owned-by-effective-group" ->
                LET meta == Stat(expand_path(c.args[1]))
                IN  meta.ok /\ meta.gid = proc.egid
          [] v = "size-gt" -> IntCmp(IntOfNat(m.size), c.args[2]) > 0
          [] v = "size-ge" -> IntCmp(IntOfNat(m.size), c.args[2]) >= 0
          [] v = "size-lt" -> IntCmp(IntOfNat(m.size), c.args[2]) < 0
          [] v = "size-le" -> IntCmp(IntOfNat(m.size), c.args[2]) <= 0
          [] v = "size-eq" -> IntCmp(IntOfNat(m.size), c.args[2]) = 0

\* the queries the closure makes itself
FileCheckFx(c, p) ==
    IF c.verb = "owned-by-effective-user"
    THEN <<Fx("stat", p), Fx("geteuid", <<>>)>>
    ELSE IF c.verb = "owned-by-effective-group"
    THEN <<Fx("stat", p), Fx("getegid", <<>>)>>
    ELSE <<>>

\* handle_file_check without its last line, exit(1): the branch returns
handle_file_check_returns(c) ==
    LET path == expand_path(c.args[1])
        m    == Stat(path)
    IN  IF m.ok /\ FileCheck(c, m)
        THEN Exit(TRUE, <<Fx("stat", path)>> \o FileCheckFx(c, path))
        ELSE [how |-> "return", code |-> 0, fx |-> <<Fx("stat", path)>>]

handle_file_check(c) ==
    LET path == expand_path(c.args[1])
        m    == Stat(path)
    IN  IF m.ok
        THEN Exit(FileCheck(c, m), <<Fx("stat", path)>> \o FileCheckFx(c, path))
        ELSE Exit(FALSE, <<Fx("stat", path)>>)

check_access(path, mode) == LibcAccess(expand_path(path), mode)

AccessBranch(c, mode) ==
    Exit(check_access(c.args[1], mode), <<Fx("access", expand_path(c.args[1]))>>)

\* the two-path branches with the rule of test(1): a file that is there is
\* newer than one that is not
TwoPathBranch_missing_is_oldest(c) ==
    LET path1 == expand_path(c.args[1])
        path2 == expand_path(c.args[2])
        meta1 == Stat(path1)
        meta2 == Stat(path2)
        fx    == <<Fx("stat", path1), Fx("stat", path2)>>
    IN  IF meta1.ok /\ meta2.ok
        THEN CASE c.verb = "has-same-inode" ->
                    Exit(meta1.dev = meta2.dev /\ meta1.ino = meta2.ino, fx)
               [] c.verb = "newer-than" -> Exit(meta1.mtime > meta2.mtime, fx)
               [] c.verb = "older-than" -> Exit(meta1.mtime < meta2.mtime, fx)
        ELSE Exit(\/ c.verb = "newer-than" /\ meta1.ok
                  \/ c.verb = "older-than" /\ meta2.ok, fx)

\* newer-than and older-than by the ages of the two files, not their times
TwoPathBranch_by_age(c) ==
    LET p1 == expand_path(c.args[1])
        p2 == expand_path(c.args[2])
        m1 == Stat(p1)
        m2 == Stat(p2)
        a1 == Elapsed(m1.mtime)
        a2 == Elapsed(m2.mtime)
        fx == <<Fx("stat", p1), Fx("stat", p2)>>
    IN  IF m1.ok /\ m2.ok
        THEN CASE c.verb = "has-same-inode" ->
                    Exit(m1.dev = m2.dev /\ m1.ino = m2.ino, fx)
               [] c.verb = "newer-than" ->
                    Exit(a1.ok /\ a2.ok /\ m1.mtime > m2.mtime, fx)
               [] c.verb = "older-than" ->
                    Exit(a1.ok /\ a2.ok /\ m1.mtime < m2.mtime, fx)
        ELSE Exit(FALSE, fx)

\* has-same-inode, newer-than, older-than
TwoPathBranch(c) ==
    LET path1 == expand_path(c.args[1])
        path2 == expand_path(c.args[2])
        meta1 == Stat(path1)
        meta2 == Stat(path2)
        fx    == <<Fx("stat", path1), Fx("stat", path2)>>
    IN  IF meta1.ok /\ meta2.ok
        THEN CASE c.verb = "has-same-inode" ->
                    Exit(meta1.dev = meta2.dev /\ meta1.ino = meta2.ino, fx)
               [] c.verb = "newer-than" -> Exit(meta1.mtime > meta2.mtime, fx)
               [] c.verb = "older-than" -> Exit(meta1.mtime < meta2.mtime, fx)
        ELSE Exit(FALSE, fx)

\* the glob verbs satisfied by any match, whatever becomes of the match
GlobBranch_any_match(c) ==
    LET expanded == Tilde(c.args[1])
        paths    == GlobPaths(expanded)
        fx       == <<Fx("glob", expanded)>>
    IN  IF GlobPatternOk(expanded)
        THEN Exit(paths # {}, fx)
        ELSE Exit(FALSE, <<>>)

\* exists-glob, non-empty-glob
GlobBranch(c) ==
    LET expanded == Tilde(c.args[1])
        paths    == GlobPaths(expanded)
        fx       == <<Fx("glob", expanded)>>
    IN  IF GlobPatternOk(expanded)
        THEN IF c.verb = "exists-glob"
             THEN Exit(\E p \in paths : Stat(p).ok, fx)
             ELSE Exit(\E p \in paths : Stat(p).ok /\ Stat(p).size > 0, fx)
        ELSE Exit(FALSE, <<>>)

\* the mtime verbs with the bound itself counted in
MtimeBranch_inclusive(c) ==
    LET path == expand_path(c.args[1])
        md   == Stat(path)
        age  == Elapsed(md.mtime)
    IN  IF md.ok
        THEN IF age.ok
             THEN IF c.verb = "mtime-older-than"
                  THEN Exit(IntCmp(age.secs, c.args[2]) >= 0,
                            <<Fx("stat", path), Fx("clock", <<>>)>>)
                  ELSE Exit(IntCmp(age.secs, c.args[2]) <= 0,
                            <<Fx("stat", path), Fx("clock", <<>>)>>)
             ELSE Exit(FALSE, <<Fx("stat", path), Fx("clock", <<>>)>>)
        ELSE Exit(FALSE, <<Fx("stat", path)>>)

\* mtime-older-than, mtime-newer-than
MtimeBranch(c) ==
    LET path == expand_path(c.args[1])
        md   == Stat(path)
        age  == Elapsed(md.mtime)
    IN  IF md.ok
        THEN IF age.ok
             THEN IF c.verb = "mtime-older-than"
                  THEN Exit(IntCmp(age.secs, c.args[2]) > 0,
                            <<Fx("stat", path), Fx("clock", <<>>)>>)
                  ELSE Exit(IntCmp(age.secs, c.args[2]) < 0,
                            <<Fx("stat", path), Fx("clock", <<>>)>>)
             ELSE Exit(FALSE, <<Fx("stat", path), Fx("clock", <<>>)>>)
        ELSE Exit(FALSE, <<Fx("stat", path)>>)

\* file symlink through the call that follows links
SymlinkBranch_follows(c) ==
    LET path == expand_path(c.args[1])
        metadata == Stat(path)
    IN  Exit(metadata.ok /\ metadata.type = "symlink", <<Fx("stat", path)>>)

SymlinkBranch(c) ==
    LET path == expand_path(c.args[1])
        metadata == Lstat(path)
    IN  Exit(metadata.ok /\ metadata.type = "symlink", <<Fx("lstat", path)>>)

ExistsBranch(c) ==
    LET path == expand_path(c.args[1])
    IN  Exit(Stat(path).ok, <<Fx("stat", path)>>)

FileBranch(c) ==
    LET v == c.verb
    IN  CASE v = "exists" -> ExistsBranch(c)
          [] v = "symlink" -> SymlinkBranch(c)
          [] v = "readable" -> AccessBranch(c, R_OK)
          [] v = "writable" -> AccessBranch(c, W_OK)
          [] v = "executable" -> AccessBranch(c, X_OK)
          [] v \in {"has-same-inode", "newer-than", "older-than"} -> TwoPathBranch(c)
          [] v \in {"exists-glob", "non-empty-glob"} -> GlobBranch(c)
          [] v \in {"mtime-older-than", "mtime-newer-than"} -> MtimeBranch(c)
          [] OTHER -> handle_file_check(c)

(***************************************************************************)
(* Regular expressions (regex::Regex), for the patterns the model draws:   *)
(* literal characters and ".", with "^" first and "$" last as anchors.     *)
(* A pattern holding "(", ")" or "[", or starting with "*", does not       *)
(* compile, alone or inside "(?i:" ... ")".                                *)
(***************************************************************************)
RegexNew(pat) ==
    /\ \A i \in 1..Len(pat) : pat[i] \notin {"(", ")", "["}
    /\ ~StartsWith(pat, <<"*">>)

AtomMatches(a, ch, ci) ==
    \/ a = "."
    \/ a = ch
    \/ ci /\ SimpleFold(a) = SimpleFold(ch)

\* Regex::is_match: the pattern matches somewhere in the text
RegexIsMatch(pat, text, ci) ==
    LET atStart == StartsWith(pat, <<"^">>)
        p1      == IF atStart THEN Tail(pat) ELSE pat
        atEnd   == EndsWith(p1, <<"$">>)
        body    == IF atEnd THEN SubSeq(p1, 1, Len(p1) - 1) ELSE p1
    IN  \E i \in 1..(Len(text) - Len(body) + 1) :
            /\ atStart => i = 1
            /\ atEnd => i + Len(body) - 1 = Len(text)
            /\ \A k \in 1..Len(body) : AtomMatches(body[k], text[i + k - 1], ci)

HexDigits ==
    {"0", "1", "2", "3", "4", "5", "6", "7", "8", "9",
     "a", "b", "c", "d", "e", "f", "A", "B", "C", "D", "E", "F"}

\* the language of (?i)^[0-9a-f]{8}-[0-9a-f]{4}-[0-9a-f]{4}-[0-9a-f]{4}-[0-9a-f]{12}$
IsUuid(text) ==
    /\ Len(text) = 36
    /\ \A i \in 1..36 :
          IF i \in {9, 14, 19, 24} THEN text[i] = "-" ELSE text[i] \in HexDigits

\* Ipv4Addr::from_str: four decimal octets, none above 255 or with a leading zero
IsIpv4(text) ==
    LET parts == Split(text, ".")
    IN  /\ Len(parts) = 4
        /\ \A i \in 1..4 :
              /\ parts[i] # <<>> /\ AllDigits(parts[i]) /\ Len(parts[i]) <= 3
              /\ (Len(parts[i]) > 1 => parts[i][1] # "0")
              /\ NatOf(parts[i]) <= 255

\* the listed tokens and the empty value only, not every leading hyphen
Suspicious_listed_only(value) ==
    \/ value = <<>>
    \/ value \in {<<"-", "a">>, <<"-", "o">>, <<"!">>, <<"(">>, <<")">>}

Suspicious(value) ==
    \/ value = <<>>
    \/ StartsWith(value, <<"-">>)
    \/ value \in {<<"-", "a">>, <<"-", "o">>, <<"!">>, <<"(">>, <<")">>}

StringBranch(c) ==
    LET v == c.verb
        a == c.args[1]
        b == IF Len(c.args) > 1 THEN c.args[2] ELSE <<>>
    IN  CASE v = "equal" -> Exit(a = b, <<>>)
          [] v = "not-equals" -> Exit(a # b, <<>>)
          [] v = "empty" -> Exit(a = <<>>, <<>>)
          [] v = "not-empty" -> Exit(a # <<>>, <<>>)
          [] v = "equal-ci" -> Exit(eq_ci(a, b), <<>>)
          [] v = "matches-regex" -> Exit(RegexNew(b) /\ RegexIsMatch(b, a, FALSE), <<>>)
          [] v = "matches-regex-ci" -> Exit(RegexNew(b) /\ RegexIsMatch(b, a, TRUE), <<>>)
          [] v = "contains" -> Exit(Contains(a, b), <<>>)
          [] v = "contains-ci" -> Exit(Contains(ToLowercase(a), ToLowercase(b)), <<>>)
          [] v = "starts-with" -> Exit(StartsWith(a, b), <<>>)
          [] v = "starts-with-ci" -> Exit(StartsWith(ToLowercase(a), ToLowercase(b)), <<>>)
          [] v = "ends-with" -> Exit(EndsWith(a, b), <<>>)
          [] v = "ends-with-ci" -> Exit(EndsWith(ToLowercase(a), ToLowercase(b)), <<>>)
          [] v = "integer" -> Exit(ParseI64(a).ok, <<>>)
          [] v = "number" -> Exit(ParseF64(a).ok, <<>>)
          [] v = "uuid" -> Exit(IsUuid(a), <<>>)
          [] v = "ipv4" -> Exit(IsIpv4(a), <<>>)
          [] v = "ascii" -> Exit(\A i \in 1..Len(a) : IsAscii(a[i]), <<>>)
          [] v = "len-gt" -> Exit(IntCmp(IntOfNat(Len(a)), b) > 0, <<>>)
          [] v = "len-ge" -> Exit(IntCmp(IntOfNat(Len(a)), b) >= 0, <<>>)
          [] v = "len-lt" -> Exit(IntCmp(IntOfNat(Len(a)), b) < 0, <<>>)
          [] v = "len-le" -> Exit(IntCmp(IntOfNat(Len(a)), b) <= 0, <<>>)
          [] v = "len-eq" -> Exit(IntCmp(IntOfNat(Len(a)), b) = 0, <<>>)
          [] v = "advise-quote" ->
                IF Suspicious(a) THEN Exit(FALSE, <<Fx("stderr", a)>>)
                ELSE Exit(TRUE, <<>>)

IntBranch(c) ==
    LET v == c.verb
        a == c.args
    IN  CASE v = "eq" -> Exit(IntCmp(a[1], a[2]) = 0, <<>>)
          [] v = "ne" -> Exit(IntCmp(a[1], a[2]) # 0, <<>>)
          [] v = "gt" -> Exit(IntCmp(a[1], a[2]) > 0, <<>>)
          [] v = "ge" -> Exit(IntCmp(a[1], a[2]) >= 0, <<>>)
          [] v = "lt" -> Exit(IntCmp(a[1], a[2]) < 0, <<>>)
          [] v = "le" -> Exit(IntCmp(a[1], a[2]) <= 0, <<>>)
          [] v = "in-range" ->
                Exit(IntCmp(a[1], a[2]) >= 0 /\ IntCmp(a[1], a[3]) <= 0, <<>>)
          [] v = "positive" -> Exit(FGt(a[1], FZero), <<>>)
          [] v = "negative" -> Exit(FLt(a[1], FZero), <<>>)

FloatBranch(c) ==
    LET v == c.verb
        a == c.args
    IN  CASE v = "in-range" -> Exit(FGe(a[3], a[1]) /\ FLe(a[3], a[2]), <<>>)
          [] v = "eq" -> Exit(FEq(FAbs(FSub(a[1], a[2])), FZero), <<>>)
          [] v = "ne" -> Exit(~FEq(FAbs(FSub(a[1], a[2])), FZero), <<>>)
          [] v = "gt" -> Exit(FGt(a[1], a[2]), <<>>)
          [] v = "ge" -> Exit(FGe(a[1], a[2]), <<>>)
          [] v = "lt" -> Exit(FLt(a[1], a[2]), <<>>)
          [] v = "le" -> Exit(FLe(a[1], a[2]), <<>>)
          [] v = "approx-eq" -> Exit(FLe(FAbs(FSub(a[1], a[2])), a[3]), <<>>)

\* semver ne as the negation of semver eq
SemverBranch_ne_negates_eq(c) ==
    LET v == c.verb
        a == VersionParse(c.args[1])
        b == VersionParse(c.args[2])
    IN  IF v = "ne"
        THEN Exit(~(a.ok /\ b.ok /\ VersionEq(a, b)), <<>>)
        ELSE IF a.ok /\ b.ok
        THEN CASE v = "eq" -> Exit(VersionEq(a, b), <<>>)
               [] v = "gt" -> Exit(VersionCmp(a, b) > 0, <<>>)
               [] v = "ge" -> Exit(VersionCmp(a, b) >= 0, <<>>)
               [] v = "lt" -> Exit(VersionCmp(a, b) < 0, <<>>)
               [] v = "le" -> Exit(VersionCmp(a, b) <= 0, <<>>)
        ELSE Exit(FALSE, <<>>)

SemverBranch(c) ==
    LET v == c.verb
        a == VersionParse(c.args[1])
        b == VersionParse(c.args[2])
    IN  IF a.ok /\ b.ok
        THEN CASE v = "eq" -> Exit(VersionEq(a, b), <<>>)
               [] v = "ne" -> Exit(~VersionEq(a, b), <<>>)
               [] v = "gt" -> Exit(VersionCmp(a, b) > 0, <<>>)
               [] v = "ge" -> Exit(VersionCmp(a, b) >= 0, <<>>)
               [] v = "lt" -> Exit(VersionCmp(a, b) < 0, <<>>)
               [] v = "le" -> Exit(VersionCmp(a, b) <= 0, <<>>)
        ELSE Exit(FALSE, <<>>)

\* env set as a bare existence check
EnvBranch_defined_is_set(c) ==
    LET val == VarOs(c.args[1])
    IN  IF c.verb = "set"
        THEN Exit(val.set, <<Fx("getenv", c.args[1])>>)
        ELSE Exit(val.set /\ val.val = c.args[2], <<Fx("getenv", c.args[1])>>)

EnvBranch(c) ==
    LET val == VarOs(c.args[1])
    IN  IF c.verb = "set"
        THEN Exit(val.set /\ val.val # <<>>, <<Fx("getenv", c.args[1])>>)
        ELSE Exit(val.set /\ val.val = c.args[2], <<Fx("getenv", c.args[1])>>)

(***************************************************************************)
(* Network and system branches.                                            *)
(***************************************************************************)
OnlineAddr == <<"1", ".", "1", ".", "1", ".", "1", ":", "5", "3">>
OnlineTimeoutMs == 800
DefaultTimeoutMs == 1000

\* str::parse::<SocketAddr> on "host:port": the host must be an address
\* literal (the model draws IPv4 ones), never a name to resolve
SocketAddrOk(addr) ==
    LET colon == IndexOf(addr, ":")
    IN  /\ colon # 0
        /\ IsIpv4(SubSeq(addr, 1, colon - 1))
        /\ ParseU16(SubSeq(addr, colon + 1, Len(addr))).ok

\* what the peer does with a connection attempt
Peer(addr) ==
    IF addr \in DOMAIN net THEN net[addr] ELSE [kind |-> "drop", delay |-> 0]

\* TcpStream::connect_timeout: one non-blocking connect(2); Ok when it
\* completes at once, or when the peer accepts before the timeout runs out
ConnectTimeout(addr, timeout) ==
    /\ Peer(addr).kind = "accept"
    /\ \/ Peer(addr).delay = 0
       \/ IntCmp(IntOfNat(Peer(addr).delay), timeout) < 0

NetBranch(c) ==
    IF c.verb = "online"
    THEN Exit(ConnectTimeout(OnlineAddr, IntOfNat(OnlineTimeoutMs)),
              <<Fx("connect", OnlineAddr)>>)
    ELSE LET addr == c.args[1] \o <<":">> \o c.args[2].mag
         IN  IF SocketAddrOk(addr)
             THEN Exit(ConnectTimeout(addr, c.args[3]), <<Fx("connect", addr)>>)
             ELSE Exit(FALSE, <<>>)

\* Path::components().count()
ComponentCount(p) ==
    LET segs == Split(p, "/")
        abs  == StartsWith(p, <<"/">>)
    IN  (IF abs THEN 1 ELSE 0)
        + Cardinality({i \in 1..Len(segs) :
              /\ segs[i] # <<>>
              /\ (segs[i] = <<".">> => i = 1 /\ ~abs)})

\* Path::join: an absolute second part replaces the first
Join(dir, name) ==
    IF StartsWith(name, <<"/">>) THEN name
    ELSE IF dir = <<>> \/ EndsWith(dir, <<"/">>) THEN dir \o name
    ELSE dir \o <<"/">> \o name

path_is_executable(candidate) == LibcAccess(candidate, X_OK)

\* env::split_paths
SplitPaths(text) == Split(text, ":")

command_exists_on_path(command) ==
    IF ComponentCount(command) > 1
    THEN path_is_executable(command)
    ELSE /\ VarOs(PATH).set
         /\ \E i \in 1..Len(SplitPaths(VarOs(PATH).val)) :
               path_is_executable(Join(SplitPaths(VarOs(PATH).val)[i], command))

CommandExistsFx(command) ==
    IF ComponentCount(command) > 1
    THEN <<Fx("access", command)>>
    ELSE <<Fx("getenv", PATH)>>

SystemBranch(c) ==
    LET v == c.verb
        a == c.args[1]
    IN  CASE v = "os" -> Exit(eq_ci(proc.os, a), <<>>)
          [] v = "arch" -> Exit(eq_ci(proc.arch, a), <<>>)
          [] v = "command-exists" ->
                Exit(command_exists_on_path(a), CommandExistsFx(a))
          [] v = "fd-tty" ->
                Exit(\E t \in proc.ttys : IntCmp(IntOfNat(t), a) = 0,
                     <<Fx("isatty", a.mag)>>)

(***************************************************************************)
(* The command tree (the derive(Subcommand) enums): every family, verb and *)
(* the type of each positional argument.  port-open also takes the         *)
(* optional --timeout-ms, modelled as an optional last argument.           *)
(***************************************************************************)
Sig(family, verb, sig) == [family |-> family, verb |-> verb, sig |-> sig]

FileCommand ==
    {Sig("file", v, <<"str">>) :
        v \in {"exists", "directory", "regular", "symlink", "block-device",
               "character-device", "named-pipe", "socket", "non-empty",
               "readable", "writable", "executable", "has-suid", "has-sgid",
               "has-sticky", "owned-by-effective-user",
               "owned-by-effective-group", "exists-glob", "non-empty-glob"}}
    \cup {Sig("file", v, <<"str", "str">>) :
        v \in {"has-same-inode", "newer-than", "older-than"}}
    \cup {Sig("file", v, <<"str", "u64">>) :
        v \in {"size-gt", "size-ge", "size-lt", "size-le", "size-eq",
               "mtime-older-than", "mtime-newer-than"}}

StringCommand ==
    {Sig("string", v, <<"str", "str">>) :
        v \in {"equal", "not-equals", "equal-ci", "matches-regex",
               "matches-regex-ci", "contains", "contains-ci", "starts-with",
               "starts-with-ci", "ends-with", "ends-with-ci"}}
    \cup {Sig("string", v, <<"str">>) :
        v \in {"empty", "not-empty", "integer", "number", "uuid", "ipv4",
               "ascii", "advise-quote"}}
    \cup {Sig("string", v, <<"str", "u64">>) :
        v \in {"len-gt", "len-ge", "len-lt", "len-le", "len-eq"}}

NumberCommand ==
    {Sig("int", v, <<"i64", "i64">>) : v \in {"eq", "ne", "gt", "ge", "lt", "le"}}
    \cup {Sig("int", "in-range", <<"i64", "i64", "i64">>)}
    \cup {Sig("int", v, <<"f64">>) : v \in {"positive", "negative"}}

FloatCommand ==
    {Sig("float", v, <<"f64", "f64">>) : v \in {"eq", "ne", "gt", "ge", "lt", "le"}}
    \cup {Sig("float", v, <<"f64", "f64", "f64">>) : v \in {"in-range", "approx-eq"}}

SemverCommand ==
    {Sig("semver", v, <<"str", "str">>) : v \in {"eq", "ne", "gt", "ge", "lt", "le"}}

EnvCommand ==
    {Sig("env", "set", <<"str">>), Sig("env", "equal-to", <<"str", "str">>)}

NetCommand ==
    {Sig("net", "online", <<>>), Sig("net", "port-open", <<"str", "u16", "u64">>)}

SystemCommand ==
    {Sig("system", v, <<"str">>) : v \in {"os", "command-exists", "arch"}}
    \cup {Sig("system", "fd-tty", <<"i32">>)}

Commands ==
    FileCommand \cup StringCommand \cup NumberCommand \cup FloatCommand
    \cup SemverCommand \cup EnvCommand \cup NetCommand \cup SystemCommand

(***************************************************************************)
(* Cli::parse: the resolver.  It finds the command of the family and verb, *)
(* checks the number of arguments and converts each to its declared type;  *)
(* any failure ends the process with clap's usage exit code before main's  *)
(* match is reached.                                                       *)
(***************************************************************************)
UsageExit == 2

DefaultTimeoutText == DecStr(DefaultTimeoutMs)

Entries(a) == {e \in Commands : e.family = a.family /\ e.verb = a.verb}

SigOf(a) == (CHOOSE e \in Entries(a) : TRUE).sig

\* the raw arguments, the default of --timeout-ms filled in
RawArgs(a) ==
    IF a.family = "net" /\ a.verb = "port-open" /\ Len(a.args) = 2
    THEN a.args \o <<DefaultTimeoutText>>
    ELSE a.args

\* value_parser of the argument's type
Converts(raw, type) ==
    CASE type = "str" -> TRUE
      [] type = "i64" -> ParseI64(raw).ok
      [] type = "i32" -> ParseI32(raw).ok
      [] type = "u64" -> ParseU64(raw).ok
      [] type = "u16" -> ParseU16(raw).ok
      [] type = "f64" -> ParseF64(raw).ok

Typed(raw, type) ==
    CASE type = "str" -> raw
      [] type = "i64" -> ParseI64(raw)
      [] type = "i32" -> ParseI32(raw)
      [] type = "u64" -> ParseU64(raw)
      [] type = "u16" -> ParseU16(raw)
      [] type = "f64" -> ParseF64(raw).v

ParseOk(a) ==
    /\ Entries(a) # {}
    /\ Len(RawArgs(a)) = Len(SigOf(a))
    /\ \A i \in 1..Len(SigOf(a)) : Converts(RawArgs(a)[i], SigOf(a)[i])

CliParse(a) ==
    [family |-> a.family, verb |-> a.verb,
     args |-> [i \in 1..Len(SigOf(a)) |-> Typed(RawArgs(a)[i], SigOf(a)[i])]]

(***************************************************************************)
(* The process.                                                            *)
(***************************************************************************)
NoCommand == [family |-> "none", verb |-> "none", args |-> <<>>]
Running == [how |-> "running", code |-> -1]

\* a resolver that reports a malformed invocation as the predicate False
Parse_reports_false ==
    /\ pc = "start"
    /\ IF ParseOk(argv)
       THEN /\ cmd' = CliParse(argv)
            /\ pc' = "dispatch"
            /\ UNCHANGED outcome
       ELSE /\ pc' = "exited"
            /\ outcome' = [how |-> "exit", code |-> 1]
            /\ UNCHANGED cmd
    /\ UNCHANGED <<argv, effects, fs, environ, net, proc, last>>

\* line 399: let cli = Cli::parse();
Parse ==
    /\ pc = "start"
    /\ IF ParseOk(argv)
       THEN /\ cmd' = CliParse(argv)
            /\ pc' = "dispatch"
            /\ UNCHANGED outcome
       ELSE /\ pc' = "exited"
            /\ outcome' = [how |-> "exit", code |-> UsageExit]
            /\ UNCHANGED cmd
    /\ UNCHANGED <<argv, effects, fs, environ, net, proc, last>>

\* the end of every branch: the queries are made and the process exits
Finish(r) ==
    /\ pc' = "exited"
    /\ outcome' = [how |-> r.how, code |-> r.code]
    /\ effects' = effects \o r.fx
    /\ UNCHANGED <<argv, cmd, fs, environ, net, proc, last>>

\* the arms of match &cli.command
MatchFile ==
    /\ pc = "dispatch"
    /\ cmd.family = "file"
    /\ Finish(FileBranch(cmd))

MatchString ==
    /\ pc = "dispatch"
    /\ cmd.family = "string"
    /\ Finish(StringBranch(cmd))

MatchInt ==
    /\ pc = "dispatch"
    /\ cmd.family = "int"
    /\ Finish(IntBranch(cmd))

MatchFloat ==
    /\ pc = "dispatch"
    /\ cmd.family = "float"
    /\ Finish(FloatBranch(cmd))

MatchSemver ==
    /\ pc = "dispatch"
    /\ cmd.family = "semver"
    /\ Finish(SemverBranch(cmd))

MatchEnv ==
    /\ pc = "dispatch"
    /\ cmd.family = "env"
    /\ Finish(EnvBranch(cmd))

MatchNet ==
    /\ pc = "dispatch"
    /\ cmd.family = "net"
    /\ Finish(NetBranch(cmd))

MatchSystem ==
    /\ pc = "dispatch"
    /\ cmd.family = "system"
    /\ Finish(SystemBranch(cmd))

Next ==
    \/ Parse
    \/ MatchFile
    \/ MatchString
    \/ MatchInt
    \/ MatchFloat
    \/ MatchSemver
    \/ MatchEnv
    \/ MatchNet
    \/ MatchSystem

\* no invocation came before this one
NoRun == [ran |-> FALSE, outcome |-> Running, now |-> 0]

\* the same command line is run once more: a new process, the same world
Again ==
    /\ pc = "exited"
    /\ ~last.ran
    /\ last' = [ran |-> TRUE, outcome |-> outcome, now |-> proc.now]
    /\ pc' = "start"
    /\ cmd' = NoCommand
    /\ outcome' = Running
    /\ effects' = <<>>
    /\ UNCHANGED <<argv, fs, environ, net, proc>>

\* a process starting on invocation a in world w
Start(a, w) ==
    /\ pc = "start"
    /\ last = NoRun
    /\ argv = a
    /\ cmd = NoCommand
    /\ outcome = Running
    /\ effects = <<>>
    /\ fs = w.fs
    /\ environ = w.environ
    /\ net = w.net
    /\ proc = w.proc

(***************************************************************************)
(* Inputs: the invocations and worlds a check draws from.                  *)
(***************************************************************************)
MaxId == 1      \* user and group ids are 0..MaxId; 0 is root
MaxSize == 1    \* file sizes are 0..MaxSize
MaxTime == 2    \* clock readings and modification times are 0..MaxTime ticks

PathA == <<"/", "a">>
PathB == <<"/", "b">>
PathHomeA == <<"/", "h", "/", "a">>
PathLs == <<"/", "b", "i", "n", "/", "l", "s">>
TildeA == <<"~", "/", "a">>
HomeText == <<"/", "h">>
BinText == <<"/", "b", "i", "n">>
Linux == <<"l", "i", "n", "u", "x">>
X86 == <<"x", "8", "6", "_", "6", "4">>
PeerAddr == <<"1", "0", ".", "0", ".", "0", ".", "1", ":", "8", "0">>
Foo == <<"F", "O", "O">>

Ids == 0..MaxId

Missing == [kind |-> "missing", target |-> <<>>, ino |-> 0]
Denied == [kind |-> "denied", target |-> <<>>, ino |-> 0]
Sym(target) == [kind |-> "symlink", target |-> target, ino |-> 0]
Link(ino) == [kind |-> "link", target |-> <<>>, ino |-> ino]

Inode(type, size, mtime, uid, gid, mode, ino) ==
    [type |-> type, size |-> size, mtime |-> mtime, uid |-> uid, gid |-> gid,
     mode |-> mode, dev |-> 1, ino |-> ino]

FileTypes == {"regular", "directory", "block", "char", "fifo", "socket"}

\* permission bits: none, one class each, all, and the three special bits
Modes == {0, 256, 128, 64, 56, 7, 511, 2541, 1517, 1023}

\* /a and /b as given, ~/a a directory, /bin/ls an executable of root
FsOf(ea, eb, i1, i2) ==
    [names |-> (PathA :> ea) @@ (PathB :> eb) @@ (PathHomeA :> Link(2))
               @@ (PathLs :> Link(3)),
     inodes |-> (1 :> i1) @@ (2 :> i2)
               @@ (3 :> Inode("regular", 1, 0, 0, 0, 493, 3))]

Plain1 == Inode("regular", 1, 1, 1, 1, 420, 1)
Dir2 == Inode("directory", 1, 1, 1, 1, 493, 2)

BaseFs == FsOf(Link(1), Missing, Plain1, Dir2)

BaseEnviron == (HOME :> SetTo(HomeText)) @@ (PATH :> SetTo(BinText))

BaseNet ==
    (OnlineAddr :> [kind |-> "accept", delay |-> 20])
    @@ (PeerAddr :> [kind |-> "accept", delay |-> 20])

BaseProc ==
    [ruid |-> 1, euid |-> 1, rgid |-> 1, egid |-> 1, now |-> MaxTime,
     ttys |-> {0, 1, 2}, pw_home |-> SetTo(HomeText), os |-> Linux,
     arch |-> X86]

World(f, e, n, p) == [fs |-> f, environ |-> e, net |-> n, proc |-> p]

BaseWorld == World(BaseFs, BaseEnviron, BaseNet, BaseProc)

\* every kind of entry at /a and /b, every type of file behind them
TypeWorlds ==
    {World(FsOf(ea, eb, [Plain1 EXCEPT !.type = t], Dir2),
           BaseEnviron, BaseNet, BaseProc) :
        ea \in {Missing, Denied, Sym(PathA), Sym(PathB), Link(1)},
        eb \in {Missing, Link(1), Link(2)},
        t \in FileTypes}

Creds == [ruid : Ids, euid : Ids, rgid : Ids, egid : Ids]

WithCreds(c) ==
    [BaseProc EXCEPT !.ruid = c.ruid, !.euid = c.euid, !.rgid = c.rgid,
                     !.egid = c.egid]

\* every owner, group and mode of /a against every identity of the process
PermWorlds ==
    {World(FsOf(Link(1), Missing,
                [Plain1 EXCEPT !.uid = u, !.gid = g, !.mode = m], Dir2),
           BaseEnviron, BaseNet, WithCreds(c)) :
        u \in Ids, g \in Ids, m \in Modes, c \in Creds}

\* every owner, group and mode of /a against user 1 of group 1
PlainPermWorlds ==
    {World(FsOf(Link(1), Missing,
                [Plain1 EXCEPT !.uid = u, !.gid = g, !.mode = m], Dir2),
           BaseEnviron, BaseNet, BaseProc) :
        u \in Ids, g \in Ids, m \in Modes}

\* every size and age of /a and /b against every clock reading
TimeWorlds ==
    {World(FsOf(Link(1), Link(2),
                [Plain1 EXCEPT !.size = s, !.mtime = t1],
                [Dir2 EXCEPT !.type = "regular", !.mtime = t2]),
           BaseEnviron, BaseNet, [BaseProc EXCEPT !.now = now]) :
        s \in 0..MaxSize, t1 \in 0..MaxTime, t2 \in 0..MaxTime,
        now \in 0..MaxTime}

Argv(family, verb, args) == [family |-> family, verb |-> verb, args |-> args]

VerbsOf(table, sig) == {e.verb : e \in {x \in table : x.sig = sig}}

PathOperands == {PathA, PathB, TildeA}

GlobOperands == {<<"/", "*">>, <<"/", "?">>, <<"/", "[">>, <<"/", "x", "*">>}

SizeOperands == {<<"0">>, <<"1">>, <<"2">>, <<"-", "1">>, <<"x">>}

FileArgvs ==
    {Argv("file", v, <<p>>) :
        v \in VerbsOf(FileCommand, <<"str">>), p \in PathOperands \cup GlobOperands}
    \cup {Argv("file", v, <<p, q>>) :
        v \in VerbsOf(FileCommand, <<"str", "str">>),
        p \in PathOperands, q \in PathOperands}
    \cup {Argv("file", v, <<p, n>>) :
        v \in VerbsOf(FileCommand, <<"str", "u64">>),
        p \in PathOperands, n \in SizeOperands}

FileWorlds == TypeWorlds \cup PlainPermWorlds \cup TimeWorlds

InitFile == \E a \in FileArgvs, w \in FileWorlds : Start(a, w)

NextFile == Parse \/ MatchFile

SpecFile == InitFile /\ [][NextFile]_vars

(***************************************************************************)
(* Inputs of the other families.                                           *)
(***************************************************************************)
MaxCiLen == 2   \* case-insensitive operands have at most MaxCiLen letters
MaxField == 1   \* version fields are 9..9+MaxField
MaxEnvLen == 1  \* environment values have at most MaxEnvLen characters

\* every text of at most n characters of the alphabet
Texts(alphabet, n) == UNION {[1..k -> alphabet] : k \in 0..n}

CiAlphabet == {"a", "A", "sigma", "fsigma", "SIGMA", "i_uml", "I_UML"}

CiOperands == Texts(CiAlphabet, MaxCiLen)

StringOperands ==
    {<<>>, <<"a">>, <<"A">>, <<"a", "b">>, <<"a", "B">>, <<"-", "a">>, <<"(">>, <<"1", "2">>, <<"1", ".", "5">>, <<"^", "a">>, <<"a", ".">>, <<"i_uml">>, <<"1", "0", ".", "0", ".", "0", ".", "1">>, <<"1", "2", "3", "e", "4", "5", "6", "7", "-", "e", "8", "9", "b", "-", "1", "2", "d", "3", "-", "a", "4", "5", "6", "-", "4", "2", "6", "6", "1", "4", "1", "7", "4", "0", "0", "0">>}

LenOperands == {<<"0">>, <<"1">>, <<"2">>, <<"-", "1">>, <<"x">>}

StringArgvs ==
    {Argv("string", v, <<a, b>>) :
        v \in VerbsOf(StringCommand, <<"str", "str">>),
        a \in StringOperands, b \in StringOperands}
    \cup {Argv("string", v, <<a>>) :
        v \in VerbsOf(StringCommand, <<"str">>), a \in StringOperands}
    \cup {Argv("string", v, <<a, n>>) :
        v \in VerbsOf(StringCommand, <<"str", "u64">>),
        a \in StringOperands, n \in LenOperands}

IntOperands ==
    {<<"0">>, <<"1">>, <<"-", "1">>, <<"+", "1">>, <<"0", "0", "7">>, <<"x">>, <<>>, <<"9", "2", "2", "3", "3", "7", "2", "0", "3", "6", "8", "5", "4", "7", "7", "5", "8", "0", "7">>, <<"9", "2", "2", "3", "3", "7", "2", "0", "3", "6", "8", "5", "4", "7", "7", "5", "8", "0", "8">>, <<"-", "9", "2", "2", "3", "3", "7", "2", "0", "3", "6", "8", "5", "4", "7", "7", "5", "8", "0", "8">>, <<"-", "9", "2", "2", "3", "3", "7", "2", "0", "3", "6", "8", "5", "4", "7", "7", "5", "8", "0", "9">>}

FloatOperands ==
    {<<"0">>, <<"-", "0">>, <<"0", ".", "5">>, <<"1">>, <<"1", ".", "5">>, <<"3">>, <<"-", "3">>, <<"i", "n", "f">>, <<"-", "i", "n", "f">>, <<"n", "a", "n">>, <<"1", "e", "9", "9", "9">>, <<"x">>, <<>>}

IntArgvs ==
    {Argv("int", v, <<a, b>>) :
        v \in VerbsOf(NumberCommand, <<"i64", "i64">>),
        a \in IntOperands, b \in IntOperands}
    \cup {Argv("int", "in-range", <<a, b, c>>) :
        a \in IntOperands, b \in IntOperands, c \in IntOperands}
    \cup {Argv("int", v, <<a>>) :
        v \in VerbsOf(NumberCommand, <<"f64">>), a \in FloatOperands}

FloatArgvs ==
    {Argv("float", v, <<a, b>>) :
        v \in VerbsOf(FloatCommand, <<"f64", "f64">>),
        a \in FloatOperands, b \in FloatOperands}
    \cup {Argv("float", v, <<a, b, c>>) :
        v \in VerbsOf(FloatCommand, <<"f64", "f64", "f64">>),
        a \in FloatOperands, b \in FloatOperands, c \in FloatOperands}

\* Display for Version
VersionText(major, minor, patch, pre, build) ==
    DecStr(major) \o <<".">> \o DecStr(minor) \o <<".">> \o DecStr(patch)
    \o (IF pre = <<>> THEN <<>> ELSE <<"-">> \o pre)
    \o (IF build = <<>> THEN <<>> ELSE <<"+">> \o build)

FieldVals == 9..(9 + MaxField)

WellFormedVersions ==
    {VersionText(major, minor, patch, pre, build) :
        major \in FieldVals, minor \in FieldVals, patch \in FieldVals,
        pre \in {<<>>, <<"a">>, <<"1">>}, build \in {<<>>, <<"b">>}}
    \cup {<<"1", ".", "2", ".", "3">>, <<"1", ".", "2", ".", "3", "-", "a", "l", "p", "h", "a">>, <<"1", ".", "0", ".", "0">>, <<"1", ".", "0", ".", "1">>}

MalformedVersions ==
    {<<>>, <<"1", ".", "2">>, <<"1", ".", "2", ".", "3", ".", "4">>, <<"0", "1", ".", "2", ".", "3">>, <<"1", ".", "2", ".", "3", "-">>, <<"1", ".", "2", ".", "3", "+">>, <<"1", ".", "2", ".", "3", "-", "0", "1">>, <<"v", "1", ".", "2", ".", "3">>}

VersionOperands == WellFormedVersions \cup MalformedVersions

SemverArgvs ==
    {Argv("semver", v, <<a, b>>) :
        v \in VerbsOf(SemverCommand, <<"str", "str">>),
        a \in VersionOperands, b \in VersionOperands}

Bar == <<"B", "A", "R">>

EnvNames == {Foo, Bar, <<>>}

EnvValues == {Unset} \cup {SetTo(v) : v \in Texts({"x"}, MaxEnvLen)}

\* an environment holds a name only when the variable is defined
EnvironOf(foo, bar) ==
    LET f == IF foo.set THEN (Foo :> foo) ELSE <<>>
        b == IF bar.set THEN (Bar :> bar) ELSE <<>>
    IN  f @@ b @@ BaseEnviron

EnvWorlds ==
    {World(BaseFs, EnvironOf(foo, bar), BaseNet, BaseProc) :
        foo \in EnvValues, bar \in EnvValues}

EnvArgvs ==
    {Argv("env", "set", <<n>>) : n \in EnvNames}
    \cup {Argv("env", "equal-to", <<n, v>>) :
            n \in EnvNames, v \in Texts({"x"}, MaxEnvLen)}

HostOperands == {<<"1", "0", ".", "0", ".", "0", ".", "1">>, <<"1", "0", ".", "0", ".", "0", ".", "2">>, <<"l", "o", "c", "a", "l", "h", "o", "s", "t">>}
PortOperands == {<<"8", "0">>, <<"6", "5", "5", "3", "6">>, <<"x">>}
TimeoutOperands == {<<"0">>, <<"1", "0">>, <<"5", "0">>, <<"x">>}

NetArgvs ==
    {Argv("net", "online", <<>>)}
    \cup {Argv("net", "port-open", <<h, p>>) :
            h \in HostOperands, p \in PortOperands}
    \cup {Argv("net", "port-open", <<h, p, t>>) :
            h \in HostOperands, p \in PortOperands, t \in TimeoutOperands}

Peers ==
    {[kind |-> "accept", delay |-> 0], [kind |-> "accept", delay |-> 20],
     [kind |-> "accept", delay |-> 900], [kind |-> "refuse", delay |-> 0],
     [kind |-> "drop", delay |-> 0]}

NetWorlds ==
    {World(BaseFs, BaseEnviron, (OnlineAddr :> o) @@ (PeerAddr :> q), BaseProc) :
        o \in Peers, q \in Peers}

NameOperands == {<<"l", "i", "n", "u", "x">>, <<"L", "I", "N", "U", "X">>, <<"L", "i", "n", "u", "x">>, <<"m", "a", "c", "o", "s">>, <<"x", "8", "6", "_", "6", "4">>, <<"X", "8", "6", "_", "6", "4">>, <<>>}
CommandOperands == {<<"l", "s">>, <<"/", "b", "i", "n", "/", "l", "s">>, <<"b", "i", "n", "/", "l", "s">>, <<"n", "o", "p", "e">>, <<"l", "s", "/">>}
FdOperands == {<<"0">>, <<"3">>, <<"-", "1">>, <<"x">>, <<"2", "1", "4", "7", "4", "8", "3", "6", "4", "8">>}

SystemArgvs ==
    {Argv("system", v, <<a>>) : v \in {"os", "arch"}, a \in NameOperands}
    \cup {Argv("system", "command-exists", <<a>>) : a \in CommandOperands}
    \cup {Argv("system", "fd-tty", <<a>>) : a \in FdOperands}

PathValues == {Unset} \cup {SetTo(v) : v \in {<<>>, <<"/", "b", "i", "n">>, <<"/", "u", "s", "r", ":", "/", "b", "i", "n">>}}

SystemWorlds ==
    {World(BaseFs,
           IF pv.set THEN (PATH :> pv) @@ BaseEnviron ELSE (HOME :> SetTo(HomeText)),
           BaseNet, [BaseProc EXCEPT !.ttys = t]) :
        pv \in PathValues, t \in {{}, {0, 1, 2}}}

\* invocations no command of the tree accepts
MalformedArgvs ==
    {Argv("foo", "bar", <<>>), Argv("file", "frobnicate", <<PathA>>),
     Argv("File", "exists", <<PathA>>), Argv("exists", "file", <<PathA>>),
     Argv("file", "exists", <<>>), Argv("file", "exists", <<PathA, PathB>>),
     Argv("file", "newer-than", <<PathA>>), Argv("net", "online", <<PathA>>),
     Argv("env", "set", <<>>), Argv("semver", "eq", <<PathA>>),
     Argv("string", "equal", <<PathA>>), Argv("system", "os", <<>>),
     Argv("int", "eq", <<<<"1">>>>), Argv("float", "eq", <<<<"1">>>>)}

MalformedWorlds == TypeWorlds \cup EnvWorlds \cup NetWorlds

Init ==
    \/ \E a \in FileArgvs, w \in FileWorlds : Start(a, w)
    \/ \E a \in StringArgvs : Start(a, BaseWorld)
    \/ \E a \in IntArgvs : Start(a, BaseWorld)
    \/ \E a \in FloatArgvs : Start(a, BaseWorld)
    \/ \E a \in SemverArgvs : Start(a, BaseWorld)
    \/ \E a \in EnvArgvs, w \in EnvWorlds : Start(a, w)
    \/ \E a \in NetArgvs, w \in NetWorlds : Start(a, w)
    \/ \E a \in SystemArgvs, w \in SystemWorlds : Start(a, w)
    \/ \E a \in MalformedArgvs, w \in MalformedWorlds : Start(a, w)

Spec == Init /\ [][Next]_vars


(***************************************************************************)
(* Specifications of one family each, over that family's full inputs.      *)
(***************************************************************************)
AccessVerbs == {"readable", "writable", "executable"}

InitAccess ==
    \E v \in AccessVerbs, p \in PathOperands, w \in PermWorlds :
        Start(Argv("file", v, <<p>>), w)

SpecAccess == InitAccess /\ [][NextFile]_vars

InitEnv == \E a \in EnvArgvs, w \in EnvWorlds : Start(a, w)

NextEnv == Parse \/ MatchEnv

SpecEnv == InitEnv /\ [][NextEnv]_vars

InitCi ==
    \/ \E a \in CiOperands, b \in CiOperands :
          Start(Argv("string", "equal-ci", <<a, b>>), BaseWorld)
    \/ \E v \in {"os", "arch"}, a \in NameOperands :
          Start(Argv("system", v, <<a>>), BaseWorld)

NextCi == Parse \/ MatchString \/ MatchSystem

SpecCi == InitCi /\ [][NextCi]_vars

InitFloat == \E a \in FloatArgvs : Start(a, BaseWorld)

NextFloat == Parse \/ MatchFloat

SpecFloat == InitFloat /\ [][NextFloat]_vars

InitSemver == \E a \in SemverArgvs : Start(a, BaseWorld)

NextSemver == Parse \/ MatchSemver

SpecSemver == InitSemver /\ [][NextSemver]_vars

(***************************************************************************)
(* Properties.                                                             *)
(***************************************************************************)
Exited == pc = "exited"

ExitedWith(code) == Exited /\ outcome.how = "exit" /\ outcome.code = code

\* the guard of Next: the process can take a step
CanStep ==
    \/ pc = "start"
    \/ /\ pc = "dispatch"
       /\ cmd.family \in {"file", "string", "int", "float", "semver", "env",
                          "net", "system"}

C1_Outcome ==
    /\ ~Exited => CanStep
    /\ (outcome = Running) <=> ~Exited
    /\ (Exited /\ ParseOk(argv)) =>
          /\ cmd = CliParse(argv)
          /\ outcome.how = "exit"
          /\ outcome.code \in {0, 1}

C1_Advance ==
    /\ pc = "start" => pc' \in {"dispatch", "exited"}
    /\ pc = "dispatch" => pc' = "exited"
    /\ ~Exited

\* C1: a well-formed request always runs to exactly one outcome, an exit
\* with status 0 or 1: before the exit the process can always take a step,
\* every step moves it on towards the exit (parse, then one branch, never a
\* retry), nothing runs after the exit, the command evaluated is the one the
\* invocation names, and no branch returns or panics instead of exiting.
C1_ExitZeroOrOne == []C1_Outcome /\ [][C1_Advance]_vars

C1_Witness ==
    /\ ExitedWith(1)
    /\ cmd.family = "file"
    /\ cmd.verb = "directory"
    /\ ~Stat(expand_path(cmd.args[1])).ok

\* C2: a malformed invocation (unknown family, unknown verb, wrong number of
\* arguments, an argument that does not convert) exits with the usage code,
\* which is neither 0 nor 1, before any command is dispatched and before
\* any query of the filesystem, the environment or the network.
C2_UsageError ==
    (Exited /\ ~ParseOk(argv)) =>
        /\ outcome.how = "exit"
        /\ outcome.code = UsageExit
        /\ outcome.code \notin {0, 1}
        /\ cmd = NoCommand
        /\ effects = <<>>

C2_Witness ==
    /\ ExitedWith(UsageExit)
    /\ argv.family = "net"
    /\ argv.verb = "port-open"
    /\ argv.args[2] = <<"6", "5", "5", "3", "6">>

\* the file verbs that take two paths, and those that take a pattern
TwoPathVerbs == {"has-same-inode", "newer-than", "older-than"}
GlobVerbs == {"exists-glob", "non-empty-glob"}

\* the metadata call the verb makes for its i-th operand path fails
RetrievalFails(c, i) ==
    IF c.verb = "symlink"
    THEN ~Lstat(expand_path(c.args[i])).ok
    ELSE ~Stat(expand_path(c.args[i])).ok

\* C3: a file predicate whose metadata retrieval fails for an operand path
\* (missing, permission denied, a dangling or looping link) exits 1, never
\* with an error; for has-same-inode, newer-than and older-than this holds as
\* soon as either of the two paths fails to resolve.
C3_MetadataFailureIsFalse ==
    (Exited /\ cmd.family = "file" /\ cmd.verb \notin GlobVerbs) =>
        /\ RetrievalFails(cmd, 1) => ExitedWith(1)
        /\ (cmd.verb \in TwoPathVerbs /\ RetrievalFails(cmd, 2)) => ExitedWith(1)

C3_Witness ==
    /\ ExitedWith(1)
    /\ cmd.family = "file"
    /\ cmd.verb = "newer-than"
    /\ ~RetrievalFails(cmd, 1)
    /\ RetrievalFails(cmd, 2)
    /\ Lookup(expand_path(cmd.args[2])).kind = "denied"

AccessMode(verb) ==
    CASE verb = "readable" -> R_OK
      [] verb = "writable" -> W_OK
      [] verb = "executable" -> X_OK

\* C4: readable, writable and executable are true exactly when the kernel
\* permits the access to the effective user and group of the process, also
\* when its real and effective ids differ.
C4_EffectiveCredentials ==
    (Exited /\ cmd.family = "file" /\ cmd.verb \in AccessVerbs) =>
        (ExitedWith(0) <=>
            AccessAs("effective", expand_path(cmd.args[1]), AccessMode(cmd.verb)))

\* C5: env set NAME exits 0 exactly when the environment defines NAME with a
\* value that is not empty; undefined or defined as the empty text, it exits 1.
C5_EnvSetNonEmpty ==
    (Exited /\ cmd.family = "env" /\ cmd.verb = "set") =>
        /\ outcome.how = "exit"
        /\ outcome.code = (IF /\ cmd.args[1] \in DOMAIN environ
                              /\ environ[cmd.args[1]].set
                              /\ environ[cmd.args[1]].val # <<>>
                           THEN 0 ELSE 1)

C5_Witness ==
    /\ ExitedWith(1)
    /\ cmd.family = "env"
    /\ cmd.verb = "set"
    /\ cmd.args[1] = Foo
    /\ Foo \in DOMAIN environ
    /\ environ[Foo] = SetTo(<<>>)

\* the capital form of a letter; a character without one is its own
UpperOf(c) ==
    CASE c = "a" -> "A"
      [] c = "i_uml" -> "I_UML"
      [] c \in {"sigma", "fsigma"} -> "SIGMA"
      [] OTHER -> c

\* two texts that differ in nothing but the case of their letters: at every
\* position the characters are the same, or one is the capital of the other
SameButForCase(a, b) ==
    /\ Len(a) = Len(b)
    /\ \A i \in 1..Len(a) :
          a[i] = b[i] \/ UpperOf(a[i]) = b[i] \/ UpperOf(b[i]) = a[i]

\* the two texts a case-insensitive predicate compares
CiLeft(c) ==
    IF c.family = "string" THEN c.args[1]
    ELSE IF c.verb = "os" THEN proc.os ELSE proc.arch

CiRight(c) == IF c.family = "string" THEN c.args[2] ELSE c.args[1]

\* C6: string equal-ci, system os and system arch are true for every pair of
\* texts that differ only in letter case, non-ASCII letters included, and
\* false for every pair that differs in anything else.
C6_CaseInsensitiveEquality ==
    (Exited /\ cmd.verb \in {"equal-ci", "os", "arch"}) =>
        (ExitedWith(0) <=> SameButForCase(CiLeft(cmd), CiRight(cmd)))

\* C7: float eq is true exactly when its operands are equal as IEEE values
\* and float ne exactly when they are not, for every pair of parsed values,
\* the infinities and NaN included.
C7_FloatEqIsIeee ==
    (Exited /\ cmd.family = "float") =>
        /\ cmd.verb = "eq" => (ExitedWith(0) <=> FEq(cmd.args[1], cmd.args[2]))
        /\ cmd.verb = "ne" => (ExitedWith(0) <=> ~FEq(cmd.args[1], cmd.args[2]))

SemverVerbs == {"eq", "ne", "gt", "ge", "lt", "le"}

SemverExited == Exited /\ cmd.family = "semver"

\* C8: each of the six semver verbs is False (exit 1) when either operand is
\* not a semantic version; semver ne too, which is then not the negation of
\* semver eq.
C8_SemverParseFailureIsFalse ==
    (/\ SemverExited
     /\ cmd.verb \in SemverVerbs
     /\ (cmd.args[1] \in MalformedVersions \/ cmd.args[2] \in MalformedVersions))
        => ExitedWith(1)

C8_Witness ==
    /\ SemverExited
    /\ ExitedWith(1)
    /\ cmd.verb = "ne"
    /\ cmd.args[1] = <<"1", ".", "2">>
    /\ cmd.args[2] \in WellFormedVersions

\* the numbers major.minor.patch of a version
Core(v) == <<NatOf(v.major), NatOf(v.minor), NatOf(v.patch)>>

\* major, then minor, then patch, each as a number
CoreLess(x, y) ==
    \/ x[1] < y[1]
    \/ x[1] = y[1] /\ x[2] < y[2]
    \/ x[1] = y[1] /\ x[2] = y[2] /\ x[3] < y[3]

\* TRUE when the outcome of the verb on operands ranked a below b is right
RankedBelow(verb) ==
    IF verb \in {"lt", "le", "ne"} THEN ExitedWith(0) ELSE ExitedWith(1)

\* TRUE when the outcome of the verb on operands ranked a above b is right
RankedAbove(verb) ==
    IF verb \in {"gt", "ge", "ne"} THEN ExitedWith(0) ELSE ExitedWith(1)

\* C9: for two parseable versions the verbs follow standard precedence:
\* major, minor and patch compare as numbers in that order, and a release
\* ranks strictly above a pre-release of the same major.minor.patch.
C9_SemverPrecedence ==
    (/\ SemverExited
     /\ cmd.args[1] \in WellFormedVersions
     /\ cmd.args[2] \in WellFormedVersions) =>
        LET a == VersionParse(cmd.args[1])
            b == VersionParse(cmd.args[2])
        IN  /\ CoreLess(Core(a), Core(b)) => RankedBelow(cmd.verb)
            /\ CoreLess(Core(b), Core(a)) => RankedAbove(cmd.verb)
            /\ (Core(a) = Core(b) /\ a.pre = <<>> /\ b.pre # <<>>)
                    => RankedAbove(cmd.verb)
            /\ (Core(a) = Core(b) /\ a.pre # <<>> /\ b.pre = <<>>)
                    => RankedBelow(cmd.verb)

C9_Witness ==
    /\ SemverExited
    /\ ExitedWith(0)
    /\ cmd.verb = "gt"
    /\ cmd.args[1] = <<"1", ".", "2", ".", "3">>
    /\ cmd.args[2] = <<"1", ".", "2", ".", "3", "-", "a", "l", "p", "h", "a">>

\* C10: two parseable versions that differ only in build metadata compare as
\* equal: semver eq, ge and le are true, semver ne, gt and lt are false.
C10_BuildMetadataIgnored ==
    (/\ SemverExited
     /\ cmd.args[1] \in WellFormedVersions
     /\ cmd.args[2] \in WellFormedVersions) =>
        LET a == VersionParse(cmd.args[1])
            b == VersionParse(cmd.args[2])
        IN  (/\ a.major = b.major /\ a.minor = b.minor /\ a.patch = b.patch
             /\ a.pre = b.pre /\ a.build # b.build)
                => IF cmd.verb \in {"eq", "ge", "le"}
                   THEN ExitedWith(0) ELSE ExitedWith(1)

(***************************************************************************)
(* The glob verbs, over patterns that match nothing, one path, several     *)
(* paths, a path under the home directory, and patterns that do not parse. *)
(***************************************************************************)
GlobPatterns ==
    GlobOperands \cup
    {<<"/", "a", "*">>, <<"~", "/", "*">>, <<"/", "*", "*", "*">>, PathA, PathB}

GlobArgvs ==
    {Argv("file", v, <<p>>) : v \in GlobVerbs, p \in GlobPatterns}

InitGlob == \E a \in GlobArgvs, w \in TypeWorlds \cup TimeWorlds : Start(a, w)

SpecGlob == InitGlob /\ [][NextFile]_vars

\* the paths the expanded pattern of the request matches
Matched(c) == GlobPaths(Tilde(c.args[1]))

\* C11: exists-glob exits 0 exactly when a path matched by the tilde-expanded
\* pattern exists, non-empty-glob exactly when a matched path has a size
\* above 0; no match, no match that passes, and a pattern that does not
\* parse all exit 1.
C11_GlobAnyMatch ==
    (Exited /\ cmd.family = "file" /\ cmd.verb \in GlobVerbs) =>
        /\ outcome.how = "exit"
        /\ outcome.code \in {0, 1}
        /\ ~GlobPatternOk(Tilde(cmd.args[1])) => ExitedWith(1)
        /\ GlobPatternOk(Tilde(cmd.args[1])) =>
            (ExitedWith(0) <=>
                \E p \in Matched(cmd) :
                    /\ Stat(p).ok
                    /\ cmd.verb = "non-empty-glob" => Stat(p).size > 0)

C11_Witness ==
    /\ ExitedWith(1)
    /\ cmd.family = "file"
    /\ cmd.verb = "non-empty-glob"
    /\ GlobPatternOk(Tilde(cmd.args[1]))
    /\ \E p \in Matched(cmd) : Stat(p).ok /\ Stat(p).size = 0

(***************************************************************************)
(* Every request of Init, and advise-quote on every word of at most        *)
(* MaxQuoteLen characters over the characters its test looks at.           *)
(***************************************************************************)
MaxQuoteLen == 2

QuoteAlphabet == {"-", "a", "o", "!", "(", ")"}

QuoteArgvs ==
    {Argv("string", "advise-quote", <<v>>) : v \in Texts(QuoteAlphabet, MaxQuoteLen)}

InitOutput ==
    \/ Init
    \/ \E a \in QuoteArgvs : Start(a, BaseWorld)

SpecOutput == InitOutput /\ [][Next]_vars

\* what the process has written to its standard output and error stream
Writes == SelectSeq(effects, LAMBDA e : e.op \in {"stdout", "stderr"})

AdviseQuote == cmd.family = "string" /\ cmd.verb = "advise-quote"

\* C12: string advise-quote exits 1 with one warning line on the error
\* stream exactly when its value is empty, starts with "-", or is one of
\* "-a", "-o", "!", "(", ")"; otherwise it exits 0 and writes nothing.  No
\* other predicate writes to standard output or to the error stream.
C12_OnlyAdviseQuoteWrites ==
    (Exited /\ cmd # NoCommand) =>
        IF AdviseQuote
        THEN LET value == cmd.args[1]
             IN  IF \/ value = <<>>
                    \/ value[1] = "-"
                    \/ value \in {<<"-", "a">>, <<"-", "o">>, <<"!">>, <<"(">>, <<")">>}
                 THEN ExitedWith(1) /\ Writes = <<Fx("stderr", value)>>
                 ELSE ExitedWith(0) /\ Writes = <<>>
        ELSE Writes = <<>>

C12_Witness ==
    /\ ExitedWith(1)
    /\ AdviseQuote
    /\ cmd.args[1] = <<"-", "!">>
    /\ Len(Writes) = 1
    /\ Writes[1].op = "stderr"

(***************************************************************************)
(* The network verbs, against peers that accept at once, accept late,      *)
(* refuse or drop, and a host name whose port may be open.                 *)
(***************************************************************************)
LocalhostAddr == <<"l", "o", "c", "a", "l", "h", "o", "s", "t", ":", "8", "0">>

NamedHostWorlds ==
    {World(BaseFs, BaseEnviron,
           (OnlineAddr :> o) @@ (PeerAddr :> q) @@ (LocalhostAddr :> q), BaseProc) :
        o \in Peers, q \in Peers}

InitNet == \E a \in NetArgvs, w \in NetWorlds \cup NamedHostWorlds : Start(a, w)

NextNet == Parse \/ MatchNet

SpecNet == InitNet /\ [][NextNet]_vars

\* the connection attempts made so far
Attempts == SelectSeq(effects, LAMBDA e : e.op = "connect")

\* the host:port a network request names, and the time it allows
TargetOf(c) ==
    IF c.verb = "online" THEN OnlineAddr
    ELSE c.args[1] \o <<":">> \o c.args[2].mag

AllowedMs(c) ==
    IF c.verb = "online" THEN IntOfNat(OnlineTimeoutMs) ELSE c.args[3]

\* C13: every invocation of net online and net port-open makes exactly one
\* TCP connection attempt and exits 0 exactly when that attempt succeeds
\* within the timeout; every failure exits 1.
C13_OneAttempt ==
    (Exited /\ cmd.family = "net") =>
        /\ outcome.how = "exit"
        /\ Len(Attempts) = 1
        /\ ExitedWith(0) <=> ConnectTimeout(TargetOf(cmd), AllowedMs(cmd))
        /\ ~ExitedWith(0) => ExitedWith(1)

(***************************************************************************)
(* The same request run twice.  Between the two invocations the files, the *)
(* environment, the network and the process identity stay as they are;     *)
(* only the clock may move on.                                             *)
(***************************************************************************)
\* time passes before the second invocation starts
Tick ==
    /\ pc = "start"
    /\ last.ran
    /\ proc.now < MaxTime
    /\ proc' = [proc EXCEPT !.now = proc.now + 1]
    /\ UNCHANGED <<pc, argv, cmd, outcome, effects, fs, environ, net, last>>

\* /a of every age, the future included, against every clock reading
ClockWorlds ==
    {World(FsOf(Link(1), Link(2), [Plain1 EXCEPT !.mtime = t1],
                [Dir2 EXCEPT !.type = "regular"]),
           BaseEnviron, BaseNet, [BaseProc EXCEPT !.now = now]) :
        t1 \in 0..MaxTime, now \in 0..MaxTime}

\* semver requests on the malformed versions and a release, its
\* pre-release and its build
AgainSemverArgvs ==
    {Argv("semver", v, <<a, b>>) :
        v \in VerbsOf(SemverCommand, <<"str", "str">>),
        a \in MalformedVersions \cup {VersionText(9, 9, 9, pre, <<>>) : pre \in {<<>>, <<"a">>}},
        b \in {VersionText(9, 9, 9, <<>>, build) : build \in {<<>>, <<"b">>}}}

InitAgain ==
    \/ \E a \in FileArgvs, w \in ClockWorlds : Start(a, w)
    \/ \E a \in StringArgvs \cup IntArgvs \cup FloatArgvs \cup AgainSemverArgvs :
            Start(a, BaseWorld)
    \/ \E a \in EnvArgvs, w \in EnvWorlds : Start(a, w)
    \/ \E a \in NetArgvs, w \in NetWorlds : Start(a, w)
    \/ \E a \in SystemArgvs, w \in SystemWorlds : Start(a, w)

NextAgain == Next \/ Again \/ Tick

SpecAgain == InitAgain /\ [][NextAgain]_vars

MtimeVerbs == {"mtime-older-than", "mtime-newer-than"}

\* the second invocation has ended
RanTwice == Exited /\ last.ran

\* C14: given identical arguments and unchanged files and environment, any
\* two invocations end with the identical outcome, the mtime-relative
\* predicates included.
C14_SameOutcome == RanTwice => outcome = last.outcome

\* C14, amended: two invocations end with the identical outcome when the
\* clock reads the same at both, and for every predicate other than
\* mtime-older-than and mtime-newer-than whatever the clock reads.
C14_SameOutcomeAtSameClock ==
    (/\ RanTwice
     /\ \/ last.now = proc.now
        \/ ~(cmd.family = "file" /\ cmd.verb \in MtimeVerbs))
        => outcome = last.outcome

C14_Witness ==
    /\ RanTwice
    /\ cmd.family = "file"
    /\ cmd.verb = "mtime-older-than"
    /\ last.now = proc.now
    /\ ExitedWith(0)
    /\ outcome = last.outcome

(***************************************************************************)
(* command-exists, over names with and without separators, the empty name, *)
(* and PATH unset, empty, or listing one or two directories; /bin/ls may   *)
(* or may not be executable, and /bin/ names the directory /bin.           *)
(***************************************************************************)
CommandNames == CommandOperands \cup {<<>>, <<"/">>, <<"/", "a">>}

CommandArgvs == {Argv("system", "command-exists", <<a>>) : a \in CommandNames}

CommandWorlds ==
    {World([names |-> BaseFs.names @@ ((BinText \o <<"/">>) :> Link(2)),
            inodes |-> [BaseFs.inodes EXCEPT ![1].mode = ma, ![3].mode = ml]],
           IF pv.set THEN (PATH :> pv) @@ BaseEnviron ELSE (HOME :> SetTo(HomeText)),
           BaseNet, BaseProc) :
        pv \in PathValues, ma \in {420, 493}, ml \in {420, 493}}

InitCommand == \E a \in CommandArgvs, w \in CommandWorlds : Start(a, w)

NextCommand == Parse \/ MatchSystem

SpecCommand == InitCommand /\ [][NextCommand]_vars

\* the directories PATH lists
PathDirs ==
    IF VarOs(PATH).set
    THEN {SplitPaths(VarOs(PATH).val)[i] : i \in 1..Len(SplitPaths(VarOs(PATH).val))}
    ELSE {}

\* directory dir holds an entry called name that may be executed
HoldsExecutable(dir, name) ==
    /\ name # <<>>
    /\ LibcAccess(Join(dir, name), X_OK)

\* C15: system command-exists checks a name that contains a path separator
\* directly, without a PATH search; any other name is true exactly when a
\* directory listed in PATH holds an executable entry of that name, and
\* false when PATH is unset or no directory holds one.
C15_CommandExists ==
    (Exited /\ cmd.family = "system" /\ cmd.verb = "command-exists") =>
        LET name == cmd.args[1]
        IN  /\ outcome.how = "exit"
            /\ outcome.code \in {0, 1}
            /\ IF Contains(name, <<"/">>)
               THEN /\ ExitedWith(0) <=> LibcAccess(name, X_OK)
                    /\ ~(\E i \in 1..Len(effects) : effects[i].op = "getenv")
               ELSE ExitedWith(0) <=> \E dir \in PathDirs : HoldsExecutable(dir, name)

(***************************************************************************)
(* Paths with and without a leading "~", with HOME set, empty or unset and *)
(* with or without a passwd home directory.                                *)
(***************************************************************************)
TildeOperands ==
    {TildeA, <<"~">>, PathA, PathHomeA, <<"~", "a">>, <<"a", "~">>}

TildeArgvs ==
    {Argv("file", v, <<p>>) :
        v \in VerbsOf(FileCommand, <<"str">>), p \in TildeOperands}
    \cup {Argv("file", v, <<p, q>>) :
        v \in VerbsOf(FileCommand, <<"str", "str">>),
        p \in TildeOperands, q \in TildeOperands}
    \cup {Argv("file", v, <<p, <<"1">>>>) :
        v \in VerbsOf(FileCommand, <<"str", "u64">>), p \in TildeOperands}
    \cup {Argv("system", "command-exists", <<p>>) :
        p \in TildeOperands \cup {<<"l", "s">>}}

HomeWorlds ==
    {World(BaseFs,
           IF h.set THEN (HOME :> h) @@ BaseEnviron ELSE (PATH :> SetTo(BinText)),
           BaseNet, [BaseProc EXCEPT !.pw_home = pw]) :
        h \in {Unset, SetTo(<<>>), SetTo(HomeText)},
        pw \in {Unset, SetTo(HomeText)}}

InitTilde == \E a \in TildeArgvs, w \in HomeWorlds : Start(a, w)

NextTilde == Parse \/ MatchFile \/ MatchSystem

SpecTilde == InitTilde /\ [][NextTilde]_vars

\* the operands of a request that are paths
PathsOf(c) ==
    IF c.family = "file"
    THEN IF c.verb \in TwoPathVerbs THEN {c.args[1], c.args[2]} ELSE {c.args[1]}
    ELSE IF c.family = "system" /\ c.verb = "command-exists"
              /\ Contains(c.args[1], <<"/">>)
    THEN {c.args[1]}
    ELSE {}

\* a leading "~" replaced by the home directory when there is one
HomeExpanded(p) ==
    IF /\ p # <<>> /\ p[1] = "~" /\ (Len(p) = 1 \/ p[2] = "/")
       /\ (\/ HOME \in DOMAIN environ /\ environ[HOME].set /\ environ[HOME].val # <<>>
           \/ proc.pw_home.set)
    THEN (IF HOME \in DOMAIN environ /\ environ[HOME].set /\ environ[HOME].val # <<>>
          THEN environ[HOME].val ELSE proc.pw_home.val) \o Tail(p)
    ELSE p

FsCalls == {"stat", "lstat", "access", "glob"}

\* C16: every predicate that takes a path expands a leading "~" to the home
\* directory before its first filesystem call; a path without one, and any
\* path when no home directory can be resolved, is passed on as it is.
C16_TildeBeforeFsCall ==
    (Exited /\ PathsOf(cmd) # {}) =>
        /\ outcome.how = "exit"
        /\ \A i \in 1..Len(effects) :
              effects[i].op \in FsCalls =>
                 effects[i].arg \in {HomeExpanded(p) : p \in PathsOf(cmd)}

\* the file type each type check names
TypeNamed ==
    [x \in {"directory", "regular", "block-device", "character-device",
            "named-pipe", "socket"} |->
        CASE x = "directory" -> "directory"
          [] x = "regular" -> "regular"
          [] x = "block-device" -> "block"
          [] x = "character-device" -> "char"
          [] x = "named-pipe" -> "fifo"
          [] x = "socket" -> "socket"]

\* the directory entry a request names
EntryOf(c) == Lookup(expand_path(c.args[1]))

\* the entry is a symbolic link whose target is not there
Dangling(e) == e.kind = "symlink" /\ Lookup(e.target).kind # "link"

\* the type of the file behind an entry, a symbolic link being followed to
\* its target; "none" when there is no file behind it
TypeBehind(e) ==
    IF e.kind = "link" THEN fs.inodes[e.ino].type
    ELSE IF e.kind = "symlink" /\ Lookup(e.target).kind = "link"
    THEN fs.inodes[Lookup(e.target).ino].type
    ELSE "none"

\* C17: file symlink judges the path itself and does not follow it; exists
\* and the type checks judge the target.  A symbolic link to a directory is
\* both a symlink and a directory; a dangling one is a symlink, does not
\* exist and has no other type.
C17_SymlinkNotFollowed ==
    (Exited /\ cmd.family = "file") =>
        /\ cmd.verb = "symlink" =>
              (ExitedWith(0) <=> EntryOf(cmd).kind = "symlink")
        /\ cmd.verb = "exists" =>
              (ExitedWith(0) <=> TypeBehind(EntryOf(cmd)) # "none")
        /\ cmd.verb \in DOMAIN TypeNamed =>
              (ExitedWith(0) <=> TypeBehind(EntryOf(cmd)) = TypeNamed[cmd.verb])
        /\ (Dangling(EntryOf(cmd)) /\ cmd.verb \in DOMAIN TypeNamed \cup {"exists"})
              => ExitedWith(1)

C17_Witness ==
    /\ ExitedWith(0)
    /\ cmd.family = "file"
    /\ cmd.verb = "symlink"
    /\ Dangling(EntryOf(cmd))

\* the request with its verb replaced, everything else the same
WithVerb(c, verb) == [c EXCEPT !.verb = verb]

\* the file a request names, its modification time readable
Modified(c) == Stat(expand_path(c.args[1]))

\* whole seconds from the modification time to the clock reading
AgeSecs(c) == (proc.now - Modified(c).mtime) \div TicksPerSecond

InFuture(c) == Modified(c).mtime > proc.now

\* C18: for a path whose modification time can be read, mtime-older-than N
\* is true exactly when the age in whole elapsed seconds is above N and
\* mtime-newer-than N exactly when it is below N; the two are never both
\* true, both are false at an age of N and for a time in the future.
C18_MtimeStrict ==
    (/\ Exited
     /\ cmd.family = "file"
     /\ cmd.verb \in MtimeVerbs
     /\ Modified(cmd).ok) =>
        LET n == NatOf(cmd.args[2].mag)
        IN  /\ cmd.verb = "mtime-older-than" =>
                  (ExitedWith(0) <=> ~InFuture(cmd) /\ AgeSecs(cmd) > n)
            /\ cmd.verb = "mtime-newer-than" =>
                  (ExitedWith(0) <=> ~InFuture(cmd) /\ AgeSecs(cmd) < n)
            /\ ~(/\ MtimeBranch(WithVerb(cmd, "mtime-older-than")).code = 0
                 /\ MtimeBranch(WithVerb(cmd, "mtime-newer-than")).code = 0)
            /\ (InFuture(cmd) \/ AgeSecs(cmd) = n) =>
                  /\ ExitedWith(1)
                  /\ MtimeBranch(WithVerb(cmd, "mtime-older-than")).code = 1
                  /\ MtimeBranch(WithVerb(cmd, "mtime-newer-than")).code = 1

C18_Witness ==
    /\ ExitedWith(1)
    /\ cmd.family = "file"
    /\ cmd.verb = "mtime-older-than"
    /\ Modified(cmd).ok
    /\ ~InFuture(cmd)
    /\ AgeSecs(cmd) = 1
    /\ cmd.args[2].mag = <<"1">>

====
